---- MODULE Spec2Model ----
(***************************************************************************)
(* Transactional concurrency-control engine of the ticketing system:       *)
(* TicketsService (pessimistic and optimistic booking), TransactionService *)
(* (transaction lifecycle, timeout timer, retry of retryable database      *)
(* errors), RollbackStrategyService (failure classification) and           *)
(* OptimisticConcurrencyService (bounded retry with backoff).              *)
(*                                                                         *)
(* The relational store and the TypeORM query runner are collaborators;    *)
(* they are modelled by their PostgreSQL / TypeORM contract: a row lock is *)
(* held from the locking statement to the end of the transaction, an       *)
(* UPDATE waits for the row lock and re-evaluates its WHERE clause on the  *)
(* committed row, rollbackTransaction discards the transaction's writes,   *)
(* release() sets isReleased synchronously, and every statement on a       *)
(* released query runner throws QueryRunnerAlreadyReleasedError.           *)
(***************************************************************************)
EXTENDS Integers, Naturals, Sequences, FiniteSets, TLC

(***************************************************************************)
(* Bounds of the model.                                                    *)
(***************************************************************************)
NumProcs == 2
MaxInitQty == 2
MaxQty == 1

Procs == 1..NumProcs

(***************************************************************************)
(* Program constants.                                                      *)
(***************************************************************************)
DEFAULT_MAX_RETRIES == 3
DEFAULT_RETRY_DELAY == 200
DEFAULT_TRANSACTION_TIMEOUT == 30000
DEFAULT_STATEMENT_TIMEOUT == 5000
(* { maxRetries: 5 } of bookTicketOptimistic / releaseTicketOptimistic *)
BOOKING_MAX_RETRIES == 5
INITIAL_VERSION == 1

DEFAULT_RETRY_OPTIONS ==
  [maxRetries |-> 3, initialDelay |-> 50, maxDelay |-> 1000, backoffFactor |-> 2]

IsolationLevels ==
  {"READ UNCOMMITTED", "READ COMMITTED", "REPEATABLE READ", "SERIALIZABLE"}

ISOLATION_LEVEL_TIMEOUTS ==
  [l \in IsolationLevels |->
     CASE l = "READ UNCOMMITTED" -> 5000
       [] l = "READ COMMITTED" -> 10000
       [] l = "REPEATABLE READ" -> 15000
       [] l = "SERIALIZABLE" -> 20000]

(***************************************************************************)
(* Errors.  An error object is a record: its class, the message tag, and   *)
(* for the terminal error of executeWithRetry the context and the retry    *)
(* count its message names.  obj is the identity of the object: the        *)
(* positive number of the unit-of-work run that threw it, 0 for an error   *)
(* object created by the retry driver.                                     *)
(***************************************************************************)
NoError == [class |-> "none", msg |-> "none", ctx |-> "none", n |-> 0, obj |-> 0]

Err(class, msg, obj) == [class |-> class, msg |-> msg, ctx |-> "none", n |-> 0, obj |-> obj]

NotFoundException(obj) == Err("NotFoundException", "not found", obj)

InsufficientQuantity(obj) == Err("ConflictException", "Not enough tickets available", obj)

VersionConflict(obj) == Err("ConflictException", "Version conflict detected", obj)

LockNotAvailable(obj) == Err("QueryFailedError", "could not obtain lock on row", obj)

SerializationFailure(obj) ==
  Err("QueryFailedError", "could not serialize access due to concurrent update", obj)

StatementTimeoutError(obj) ==
  Err("QueryFailedError", "canceling statement due to statement timeout", obj)

DeadlockError(obj) == Err("QueryFailedError", "deadlock detected", obj)

AlreadyReleasedError(obj) == Err("QueryRunnerAlreadyReleasedError", "query runner already released", obj)

(* new ConflictException(`Failed to complete ${context} after ${maxRetries} retries ...`) *)
ConflictAfterRetries(context, maxRetries) ==
  [class |-> "ConflictException", msg |-> "Failed to complete after retries",
   ctx |-> context, n |-> maxRetries, obj |-> 0]

(* The substrings the classifiers look for, and which of them each driver  *)
(* message (lower-cased) contains.                                         *)
Includes(msg, pattern) ==
  pattern \in
    CASE msg = "could not serialize access due to concurrent update" ->
           {"could not serialize access due to concurrent update",
            "could not serialize access", "concurrent update"}
      [] msg = "deadlock detected" -> {"deadlock detected"}
      [] msg = "could not obtain lock on row" -> {"could not obtain lock"}
      [] msg = "canceling statement due to statement timeout" -> {"statement timeout"}
      [] OTHER -> {}

(* a classifier that takes every error for an optimistic-lock error *)
isOptimisticLockErrorAnyError(error) == TRUE

isOptimisticLockError(error) ==
  IF error.class = "ConflictException" THEN TRUE
  ELSE IF error.class = "QueryFailedError"
       THEN \/ Includes(error.msg, "could not serialize access due to concurrent update")
            \/ Includes(error.msg, "version check failed")
            \/ Includes(error.msg, "optimistic lock")
            \/ Includes(error.msg, "row was updated or deleted by another transaction")
       ELSE FALSE

isDeadlockError(error) ==
  error.class = "QueryFailedError" /\ Includes(error.msg, "deadlock detected")

(* a classifier that takes every driver error for a serialization failure *)
isSerializationErrorAnyQueryFailure(error) == error.class = "QueryFailedError"

isSerializationError(error) ==
  /\ error.class = "QueryFailedError"
  /\ \/ Includes(error.msg, "could not serialize access")
     \/ Includes(error.msg, "concurrent update")
     \/ Includes(error.msg, "serialization failure")

isStatementTimeoutError(error) ==
  error.class = "QueryFailedError" /\ Includes(error.msg, "statement timeout")

isLockTimeoutError(error) ==
  /\ error.class = "QueryFailedError"
  /\ \/ Includes(error.msg, "lock timeout")
     \/ Includes(error.msg, "could not obtain lock")
     \/ Includes(error.msg, "lock not available")

(* a strategy list whose four strategies are all retryable *)
StrategiesAllRetryable ==
  << [name |-> "deadlock", retryable |-> TRUE],
     [name |-> "serialization", retryable |-> TRUE],
     [name |-> "lockTimeout", retryable |-> TRUE],
     [name |-> "statementTimeout", retryable |-> TRUE] >>

(* registerDefaultStrategies: the strategy list, in registration order.    *)
DefaultStrategies ==
  << [name |-> "deadlock", retryable |-> TRUE],
     [name |-> "serialization", retryable |-> TRUE],
     [name |-> "lockTimeout", retryable |-> FALSE],
     [name |-> "statementTimeout", retryable |-> FALSE] >>

shouldRollback(strategy, error) ==
  CASE strategy.name = "deadlock" -> isDeadlockError(error)
    [] strategy.name = "serialization" -> isSerializationError(error)
    [] strategy.name = "lockTimeout" -> isLockTimeoutError(error)
    [] strategy.name = "statementTimeout" -> isStatementTimeoutError(error)
    [] OTHER -> FALSE

isRetryable(error) ==
  \E i \in 1..Len(DefaultStrategies) :
     shouldRollback(DefaultStrategies[i], error) /\ DefaultStrategies[i].retryable


(***************************************************************************)
(* State of the three parts of the model.  The booking API (db .. q0), one *)
(* call of OptimisticConcurrencyService.executeWithRetry with an arbitrary *)
(* operation (r...), and one call of TransactionService.execute with an    *)
(* arbitrary unit of work (t...).                                          *)
(***************************************************************************)
VARIABLES db, rowLock, call, pc, tx, ticket, retries, currentRetry, sleeps,
          result, log, trace, q0

VARIABLES rpc, rOptions, rContext, rCurrentRetry, rDelay, rCalls, rSlept, rError, rOutcome

VARIABLES tpc, tArgs, tRetries, tRunner, tError, tOutcome, tRuns, tRunners

VARIABLES strategies, spc, sError, sIndex, sResult, sLogged

bvars == << db, rowLock, call, pc, tx, ticket, retries, currentRetry, sleeps,
            result, log, trace, q0 >>

rvars == << rpc, rOptions, rContext, rCurrentRetry, rDelay, rCalls, rSlept, rError, rOutcome >>

tvars == << tpc, tArgs, tRetries, tRunner, tError, tOutcome, tRuns, tRunners >>

svars == << strategies, spc, sError, sIndex, sResult, sLogged >>

vars == << bvars, rvars, tvars, svars >>

(* the RollbackStrategyService after the constructor of TransactionService *)
(* has called registerDefaultStrategies; no call of isRetryable is modelled *)
(* step by step                                                            *)
StrategiesRegistered ==
  /\ strategies = DefaultStrategies
  /\ spc = "idle"
  /\ sError = NoError
  /\ sIndex = 0
  /\ sResult = "none"
  /\ sLogged = 0

(***************************************************************************)
(* The booking API: NumProcs concurrent callers, each making one call of   *)
(* TicketsService against the ticket row "t1" (or the id "t0", for which   *)
(* no row exists).                                                         *)
(***************************************************************************)
Kinds == {"bookTicket", "releaseTicket", "bookTicketOptimistic", "releaseTicketOptimistic"}

Ids == {"t1", "t0"}

Existing == {"t1"}

Calls == {c \in [kind : Kinds, id : Ids, qty : 1..MaxQty] : c.id \in Existing \/ c.qty = 1}

(* the read-only operations of the booking API *)
AvailabilityKinds == {"checkAvailability", "checkAvailabilityOptimistic"}

AllCalls ==
  {c \in [kind : Kinds \cup AvailabilityKinds, id : Ids, qty : 1..MaxQty] :
     c.id \in Existing \/ c.qty = 1}

(* the callers are interchangeable: only calls ordered by rank are started *)
CallRank(c) ==
  (CASE c.kind = "bookTicket" -> 0
     [] c.kind = "releaseTicket" -> 1
     [] c.kind = "bookTicketOptimistic" -> 2
     [] c.kind = "releaseTicketOptimistic" -> 3
     [] c.kind = "checkAvailability" -> 4
     [] c.kind = "checkAvailabilityOptimistic" -> 5) * 2 * (MaxQty + 1)
  + (IF c.id \in Existing THEN MaxQty + 1 ELSE 0) + c.qty

(* the operations wrapped in executeWithRetry *)
isOptimisticKind(kind) == kind \in {"bookTicketOptimistic", "releaseTicketOptimistic"}

(* the operations that take the NOWAIT exclusive row lock *)
isPessimisticKind(kind) == kind \in {"bookTicket", "releaseTicket"}

(* the endpoints of bookTicketWithIsolation that read without a row lock *)
isIsolationKind(kind) == kind \in {"bookTicketReadCommitted", "bookTicketReadUncommitted"}

isBookingKind(kind) == kind \in {"bookTicket", "bookTicketOptimistic"} \/ isIsolationKind(kind)

(* the isolation level each operation passes to TransactionService.execute *)
IsolationOf(kind) ==
  IF isPessimisticKind(kind) THEN "SERIALIZABLE"
  ELSE IF kind = "checkAvailability" THEN "REPEATABLE READ"
  ELSE IF kind = "bookTicketReadUncommitted" THEN "READ UNCOMMITTED"
  ELSE "READ COMMITTED"

(* the context string each optimistic operation passes to executeWithRetry *)
ContextOf(c) ==
  IF isBookingKind(c.kind)
  THEN (IF c.id = "t1" THEN "booking ticket t1" ELSE "booking ticket t0")
  ELSE (IF c.id = "t1" THEN "releasing ticket t1" ELSE "releasing ticket t0")

NoTicket == [quantity |-> 0, version |-> 0]

NoTx == [active |-> FALSE, isReleased |-> FALSE, snapshot |-> 0, wrote |-> FALSE,
         pending |-> NoTicket, timer |-> FALSE]

(* the outcome of a call: the error thrown, the ticket returned by a write *)
(* operation, the boolean returned by an availability check                *)
Pending == [status |-> "pending", error |-> NoError, value |-> NoTicket, available |-> FALSE]

BookingInit ==
  /\ q0 \in 0..MaxInitQty
  /\ db = [quantity |-> q0, version |-> INITIAL_VERSION]
  /\ rowLock = {}
  /\ call \in [Procs -> Calls]
  /\ \A p \in Procs : \A r \in Procs : p < r => CallRank(call[p]) <= CallRank(call[r])
  /\ pc = [p \in Procs |-> "execute"]
  /\ tx = [p \in Procs |-> NoTx]
  /\ ticket = [p \in Procs |-> NoTicket]
  /\ retries = [p \in Procs |-> 0]
  /\ currentRetry = [p \in Procs |-> 0]
  /\ sleeps = [p \in Procs |-> 0]
  /\ result = [p \in Procs |-> Pending]
  /\ log = << >>
  /\ trace = [p \in Procs |-> << >>]

(* number of times the unit of work of p's call has been started *)
uowRuns(p) == Len(trace[p])

(* record the error thrown by the current run of the unit of work *)
Thrown(p, e) == [trace EXCEPT ![p][Len(trace[p])].err = e]

(* findOne without the NOWAIT row lock *)
LockAlwaysAvailable(p) == TRUE

(* the statements of the optimistic operations ignore the row lock *)
LockAvailableToOptimistic(p) == isOptimisticKind(call[p].kind) \/ rowLock \ {p} = {}

(* the row lock is free for p: no other transaction holds it *)
LockAvailable(p) == rowLock \ {p} = {}

(* an UPDATE that never finds its row *)
affectedNone(id, version) == 0

(* WHERE id = :id, without the version *)
affectedAnyVersion(id, version) == IF id \in Existing THEN 1 ELSE 0

(* WHERE id = :id AND version >= :version *)
affectedNotOlder(id, version) == IF id \in Existing /\ db.version >= version THEN 1 ELSE 0

(* WHERE id = :id AND version = :version, evaluated on the committed row *)
affected(id, version) == IF id \in Existing /\ db.version = version THEN 1 ELSE 0

(* an UPDATE that leaves the version column alone *)
NextVersionUnchanged(version) == version

(* the version column after a successful UPDATE of the row *)
NextVersion(version) == version + 1

(* a booking without the quantity check *)
InsufficientNever(kind, quantity, qty) == FALSE

(* the check of bookTicket / bookTicketOptimistic before the decrement *)
Insufficient(kind, quantity, qty) == isBookingKind(kind) /\ quantity < qty

(* ticket.quantity += quantity in every operation *)
NewQuantityAlwaysAdds(kind, quantity, qty) == quantity + qty

(* ticket.quantity -= quantity / ticket.quantity += quantity *)
NewQuantity(kind, quantity, qty) ==
  IF isBookingKind(kind) THEN quantity - qty ELSE quantity + qty

(* retries <= maxRetries *)
ExecuteRetriesOffByOne(error, n) == isRetryable(error) /\ n <= DEFAULT_MAX_RETRIES

(* an execute that retries whatever the unit of work throws *)
ExecuteRetriesAnyError(error, n) == n < DEFAULT_MAX_RETRIES

(* the retry predicate of TransactionService.execute *)
ExecuteRetries(error, n) == isRetryable(error) /\ n < DEFAULT_MAX_RETRIES

(* a driver that retries whatever the operation throws *)
DriverRetriesAnyError(error, n, maxRetries) == n < maxRetries

(* a driver that gives up on the first error *)
DriverNeverRetries(error, n, maxRetries) == FALSE

(* a driver that retries once, whatever maxRetries is *)
DriverRetriesOnce(error, n, maxRetries) == isOptimisticLockError(error) /\ n < 1

(* currentRetry <= maxRetries *)
DriverRetriesOffByOne(error, n, maxRetries) == isOptimisticLockError(error) /\ n <= maxRetries

(* the retry predicate of executeWithRetry *)
DriverRetries(error, n, maxRetries) == isOptimisticLockError(error) /\ n < maxRetries

(* every error is wrapped in the terminal error *)
thrownErrorAlwaysWrapped(error, context, maxRetries) == ConflictAfterRetries(context, maxRetries)

(* what executeWithRetry throws when it does not retry *)
thrownError(error, context, maxRetries) ==
  IF isOptimisticLockError(error) THEN ConflictAfterRetries(context, maxRetries) ELSE error

(***************************************************************************)
(* An error e leaves the unit of work of p: executeTransaction rolls back  *)
(* and releases (catch / finally), execute retries a retryable database    *)
(* error, and for the optimistic operations executeWithRetry retries an    *)
(* optimistic-lock error after a backoff sleep or throws.                  *)
(***************************************************************************)
Fail(p, e) ==
  /\ tx' = [tx EXCEPT ![p] = [NoTx EXCEPT !.isReleased = TRUE]]
  /\ rowLock' = rowLock \ {p}
  /\ trace' = Thrown(p, e)
  /\ IF ExecuteRetries(e, retries[p])
     THEN /\ retries' = [retries EXCEPT ![p] = @ + 1]
          /\ pc' = [pc EXCEPT ![p] = "execute"]
          /\ UNCHANGED << currentRetry, sleeps, result >>
     ELSE IF isOptimisticKind(call[p].kind)
          THEN IF DriverRetries(e, currentRetry[p], BOOKING_MAX_RETRIES)
               THEN /\ currentRetry' = [currentRetry EXCEPT ![p] = @ + 1]
                    /\ sleeps' = [sleeps EXCEPT ![p] = @ + 1]
                    /\ retries' = [retries EXCEPT ![p] = 0]
                    /\ pc' = [pc EXCEPT ![p] = "execute"]
                    /\ UNCHANGED result
               ELSE /\ result' = [result EXCEPT ![p] =
                         [Pending EXCEPT
                            !.status = "error",
                            !.error = thrownError(e, ContextOf(call[p]), BOOKING_MAX_RETRIES)]]
                    /\ pc' = [pc EXCEPT ![p] = "done"]
                    /\ UNCHANGED << retries, currentRetry, sleeps >>
          ELSE /\ result' = [result EXCEPT ![p] =
                    [Pending EXCEPT !.status = "error", !.error = e]]
               /\ pc' = [pc EXCEPT ![p] = "done"]
               /\ UNCHANGED << retries, currentRetry, sleeps >>

(* createQueryRunner, connect, startTransaction, SET statement_timeout,    *)
(* arm the timeout timer, call the unit of work.                           *)
BeginTransaction(p) ==
  /\ pc[p] = "execute"
  /\ UNCHANGED << rvars, tvars, svars >>
  /\ tx' = [tx EXCEPT ![p] =
        [NoTx EXCEPT !.active = TRUE,
                     !.snapshot = IF IsolationOf(call[p].kind) \in {"SERIALIZABLE", "REPEATABLE READ"}
                                  THEN db.version ELSE 0,
                     !.timer = TRUE]]
  /\ trace' = [trace EXCEPT ![p] = Append(@, [read |-> 0, err |-> NoError])]
  /\ pc' = [pc EXCEPT ![p] = "findOne"]
  /\ UNCHANGED << db, rowLock, call, ticket, retries, currentRetry, sleeps, result, log, q0 >>


(* findOne of bookTicket / releaseTicket: SELECT ... FOR UPDATE NOWAIT in  *)
(* a SERIALIZABLE transaction, then the checks and the in-memory change.   *)
FindOneLocked(p) ==
  /\ pc[p] = "findOne"
  /\ UNCHANGED << rvars, tvars, svars >>
  /\ isPessimisticKind(call[p].kind)
  /\ UNCHANGED << db, call, log, q0 >>
  /\ LET run == uowRuns(p) IN
     IF tx[p].isReleased
     THEN Fail(p, AlreadyReleasedError(run)) /\ UNCHANGED ticket
     ELSE IF call[p].id \notin Existing
     THEN Fail(p, NotFoundException(run)) /\ UNCHANGED ticket
     ELSE IF tx[p].snapshot # db.version
     THEN Fail(p, SerializationFailure(run)) /\ UNCHANGED ticket
     ELSE IF ~LockAvailable(p)
     THEN Fail(p, LockNotAvailable(run)) /\ UNCHANGED ticket
     ELSE IF Insufficient(call[p].kind, db.quantity, call[p].qty)
     THEN Fail(p, InsufficientQuantity(run))
          /\ ticket' = [ticket EXCEPT ![p] = db]
     ELSE /\ rowLock' = rowLock \cup {p}
          /\ ticket' = [ticket EXCEPT ![p] =
                [quantity |-> NewQuantity(call[p].kind, db.quantity, call[p].qty),
                 version |-> db.version]]
          /\ trace' = [trace EXCEPT ![p][Len(trace[p])].read = db.version]
          /\ pc' = [pc EXCEPT ![p] = "save"]
          /\ UNCHANGED << tx, retries, currentRetry, sleeps, result >>

(* a findOne that returns the row as the first attempt of the call read it *)
findOneCached(p) ==
  IF uowRuns(p) > 1 /\ trace[p][1].read # 0
  THEN [db EXCEPT !.version = trace[p][1].read]
  ELSE db

(* ticketRepository.findOne({ where: { id } }) inside the transaction of   *)
(* the current attempt: the committed row                                  *)
findOne(p) == db

(* findOne of bookTicketOptimistic / releaseTicketOptimistic: a plain read *)
(* of the committed row at READ COMMITTED, then the checks, initialVersion *)
(* and the in-memory change.                                               *)
FindOne(p) ==
  /\ pc[p] = "findOne"
  /\ UNCHANGED << rvars, tvars, svars >>
  /\ isOptimisticKind(call[p].kind)
  /\ UNCHANGED << db, call, log, q0 >>
  /\ LET run == uowRuns(p) IN
     IF tx[p].isReleased
     THEN Fail(p, AlreadyReleasedError(run)) /\ UNCHANGED ticket
     ELSE IF call[p].id \notin Existing
     THEN Fail(p, NotFoundException(run)) /\ UNCHANGED ticket
     ELSE IF Insufficient(call[p].kind, findOne(p).quantity, call[p].qty)
     THEN Fail(p, InsufficientQuantity(run))
          /\ ticket' = [ticket EXCEPT ![p] = findOne(p)]
     ELSE /\ ticket' = [ticket EXCEPT ![p] =
                [quantity |-> NewQuantity(call[p].kind, findOne(p).quantity, call[p].qty),
                 version |-> findOne(p).version]]
          /\ trace' = [trace EXCEPT ![p][Len(trace[p])].read = db.version]
          /\ pc' = [pc EXCEPT ![p] = "update"]
          /\ UNCHANGED << rowLock, tx, retries, currentRetry, sleeps, result >>

(* ticketRepository.save(ticket): the row is loaded again and compared     *)
(* with the entity; without a difference no UPDATE is issued, otherwise    *)
(* UPDATE of quantity with version = version + 1, WHERE id only.           *)
Save(p) ==
  /\ pc[p] = "save"
  /\ UNCHANGED << rvars, tvars, svars >>
  /\ UNCHANGED << db, call, ticket, log, q0 >>
  /\ IF tx[p].isReleased
     THEN Fail(p, AlreadyReleasedError(uowRuns(p)))
     ELSE IF ticket[p].quantity = db.quantity
     THEN /\ pc' = [pc EXCEPT ![p] = "commit"]
          /\ UNCHANGED << rowLock, tx, retries, currentRetry, sleeps, result, trace >>
     ELSE /\ LockAvailable(p)
          /\ rowLock' = rowLock \cup {p}
          /\ tx' = [tx EXCEPT ![p].wrote = TRUE,
                              ![p].pending = [quantity |-> ticket[p].quantity,
                                              version |-> NextVersion(db.version)]]
          /\ pc' = [pc EXCEPT ![p] = "commit"]
          /\ UNCHANGED << retries, currentRetry, sleeps, result, trace >>

(* the conditional update of the optimistic operations, WHERE id = :id AND *)
(* version = :initialVersion; zero affected rows raise the version         *)
(* conflict, otherwise the row is re-read inside the transaction.          *)
ConditionalUpdate(p) ==
  /\ pc[p] = "update"
  /\ UNCHANGED << rvars, tvars, svars >>
  /\ UNCHANGED << db, call, ticket, log, q0 >>
  /\ IF tx[p].isReleased
     THEN Fail(p, AlreadyReleasedError(uowRuns(p)))
     ELSE /\ LockAvailable(p)
          /\ IF affected(call[p].id, ticket[p].version) = 0
             THEN Fail(p, VersionConflict(uowRuns(p)))
             ELSE /\ rowLock' = rowLock \cup {p}
                  /\ tx' = [tx EXCEPT ![p].wrote = TRUE,
                                      ![p].pending = [quantity |-> ticket[p].quantity,
                                                      version |-> NextVersion(db.version)]]
                  /\ pc' = [pc EXCEPT ![p] = "commit"]
                  /\ UNCHANGED << retries, currentRetry, sleeps, result, trace >>

(* the conditional update waits for the row lock of another transaction    *)
(* until the statement timeout cancels it.                                 *)
StatementTimeout(p) ==
  /\ pc[p] = "update"
  /\ UNCHANGED << rvars, tvars, svars >>
  /\ ~tx[p].isReleased
  /\ ~LockAvailable(p)
  /\ Fail(p, StatementTimeoutError(uowRuns(p)))
  /\ UNCHANGED << db, call, ticket, log, q0 >>

(* the row as a read inside the transaction of p returns it: its own       *)
(* uncommitted write, else the committed row (the ticket returned by save, *)
(* the updatedTicket re-read after the conditional update)                 *)
updatedTicket(p) == IF tx[p].wrote THEN tx[p].pending ELSE db

(* commitTransaction, return of the result, finally: clearTimeout and      *)
(* release.  On a query runner the timeout handler has rolled back and     *)
(* released, commitTransaction throws.                                     *)
CommitTransaction(p) ==
  /\ pc[p] = "commit"
  /\ UNCHANGED << rvars, tvars, svars >>
  /\ UNCHANGED << call, ticket, q0 >>
  /\ IF tx[p].isReleased
     THEN Fail(p, AlreadyReleasedError(uowRuns(p))) /\ UNCHANGED << db, log >>
     ELSE /\ db' = updatedTicket(p)
          /\ rowLock' = rowLock \ {p}
          /\ log' = Append(log, [proc |-> p, before |-> ticket[p].version,
                                 dbBefore |-> db, after |-> updatedTicket(p)])
          /\ tx' = [tx EXCEPT ![p] = [NoTx EXCEPT !.isReleased = TRUE]]
          /\ result' = [result EXCEPT ![p] =
                [Pending EXCEPT !.status = "ok", !.value = updatedTicket(p)]]
          /\ pc' = [pc EXCEPT ![p] = "done"]
          /\ UNCHANGED << retries, currentRetry, sleeps, trace >>

(* the timeout timer of executeTransaction fires while the unit of work or *)
(* the commit is awaited: rollbackTransaction and release.                 *)
TransactionTimeout(p) ==
  /\ pc[p] \in {"findOne", "save", "update", "commit", "return"}
  /\ UNCHANGED << rvars, tvars, svars >>
  /\ tx[p].timer
  /\ ~tx[p].isReleased
  /\ tx' = [tx EXCEPT ![p] = [NoTx EXCEPT !.isReleased = TRUE]]
  /\ rowLock' = rowLock \ {p}
  /\ UNCHANGED << db, call, pc, ticket, retries, currentRetry, sleeps, result, log, trace, q0 >>

BookingNext ==
  \E p \in Procs :
     \/ BeginTransaction(p)
     \/ FindOneLocked(p)
     \/ FindOne(p)
     \/ Save(p)
     \/ ConditionalUpdate(p)
     \/ StatementTimeout(p)
     \/ CommitTransaction(p)
     \/ TransactionTimeout(p)


(* no booking call is in progress *)
BookingIdle ==
  /\ q0 = 0
  /\ db = [quantity |-> 0, version |-> INITIAL_VERSION]
  /\ rowLock = {}
  /\ call = [p \in Procs |-> [kind |-> "bookTicket", id |-> "t0", qty |-> 1]]
  /\ pc = [p \in Procs |-> "idle"]
  /\ tx = [p \in Procs |-> NoTx]
  /\ ticket = [p \in Procs |-> NoTicket]
  /\ retries = [p \in Procs |-> 0]
  /\ currentRetry = [p \in Procs |-> 0]
  /\ sleeps = [p \in Procs |-> 0]
  /\ result = [p \in Procs |-> Pending]
  /\ log = << >>
  /\ trace = [p \in Procs |-> << >>]

(***************************************************************************)
(* OptimisticConcurrencyService.executeWithRetry with an arbitrary         *)
(* operation: every invocation of the operation returns or throws one of   *)
(* the errors of the system.  Delays are kept in hundredths of a           *)
(* millisecond; Math.random() is one of the Jitter percentages.            *)
(***************************************************************************)
MaxMaxRetries == 3

OptionKeys == {"maxRetries", "initialDelay", "maxDelay", "backoffFactor"}

(* { ...DEFAULT_RETRY_OPTIONS, ...options } *)
mergeOptions(options) ==
  [k \in OptionKeys |-> IF k \in DOMAIN options THEN options[k] ELSE DEFAULT_RETRY_OPTIONS[k]]

(* the Partial<RetryOptions> a caller may pass *)
OptionInputs ==
  {[k \in {} |-> 0]}
  \cup {[k \in {"maxRetries"} |-> n] : n \in 0..MaxMaxRetries}
  \cup {[maxRetries |-> n, initialDelay |-> d, maxDelay |-> 20, backoffFactor |-> f] :
          n \in 0..MaxMaxRetries, d \in {10, 30}, f \in 1..2}

Contexts == {"operation", "test operation", "booking ticket t1"}

(* 100 * 0.2 * Math.random(), Math.random() in [0, 1) *)
Jitter == {0, 10, 19}

Min(a, b) == IF a < b THEN a ELSE b

(* a next delay without the cap *)
nextDelayUncapped(delay, options, j) ==
  (delay * options["backoffFactor"] * (100 + j)) \div 100

(* Math.min(delay * backoffFactor * (1 + 0.2 * Math.random()), maxDelay) *)
nextDelay(delay, options, j) ==
  Min((delay * options["backoffFactor"] * (100 + j)) \div 100, options["maxDelay"] * 100)

(* the errors an operation can throw, as the object created by run obj *)
OperationErrors(obj) ==
  {VersionConflict(obj), InsufficientQuantity(obj), NotFoundException(obj),
   SerializationFailure(obj), DeadlockError(obj), LockNotAvailable(obj),
   StatementTimeoutError(obj), Err("Error", "Different error", obj)}

RetryIdle ==
  /\ rpc = "idle"
  /\ rOptions = mergeOptions([k \in {} |-> 0])
  /\ rContext = "operation"
  /\ rCurrentRetry = 0
  /\ rDelay = 0
  /\ rCalls = 0
  /\ rSlept = << >>
  /\ rError = NoError
  /\ rOutcome = [status |-> "pending", error |-> NoError, value |-> 0]

RetryInit ==
  /\ rpc = "operation"
  /\ rOptions \in {mergeOptions(o) : o \in OptionInputs}
  /\ rContext \in Contexts
  /\ rCurrentRetry = 0
  /\ rDelay = rOptions["initialDelay"] * 100
  /\ rCalls = 0
  /\ rSlept = << >>
  /\ rError = NoError
  /\ rOutcome = [status |-> "pending", error |-> NoError, value |-> 0]

(* return await operation(): the value is the result object made by this   *)
(* invocation, named by the number of the invocation                       *)
OperationReturns ==
  /\ rpc = "operation"
  /\ rCalls' = rCalls + 1
  /\ rOutcome' = [status |-> "returned", error |-> NoError, value |-> rCalls + 1]
  /\ rpc' = "done"
  /\ UNCHANGED << rOptions, rContext, rCurrentRetry, rDelay, rSlept, rError >>
  /\ UNCHANGED << bvars, tvars, svars >>

(* operation() rejects with error e: the catch block of executeWithRetry *)
OperationThrows(e) ==
  /\ rpc = "operation"
  /\ rCalls' = rCalls + 1
  /\ rError' = e
  /\ IF DriverRetries(e, rCurrentRetry, rOptions["maxRetries"])
     THEN /\ rCurrentRetry' = rCurrentRetry + 1
          /\ rSlept' = Append(rSlept, rDelay)
          /\ rpc' = "delay"
          /\ UNCHANGED rOutcome
     ELSE /\ rOutcome' = [status |-> "thrown",
                          error |-> thrownError(e, rContext, rOptions["maxRetries"]),
                          value |-> 0]
          /\ rpc' = "done"
          /\ UNCHANGED << rCurrentRetry, rSlept >>
  /\ UNCHANGED << rOptions, rContext, rDelay >>
  /\ UNCHANGED << bvars, tvars, svars >>

(* await this.delay(delay) is over: the next delay is computed and the     *)
(* loop invokes the operation again.                                       *)
DelayElapsed(j) ==
  /\ rpc = "delay"
  /\ rDelay' = nextDelay(rDelay, rOptions, j)
  /\ rpc' = "operation"
  /\ UNCHANGED << rOptions, rContext, rCurrentRetry, rCalls, rSlept, rError, rOutcome >>
  /\ UNCHANGED << bvars, tvars, svars >>

RetryNext ==
  \/ OperationReturns
  \/ \E e \in OperationErrors(rCalls + 1) : OperationThrows(e)
  \/ \E j \in Jitter : DelayElapsed(j)


(***************************************************************************)
(* TransactionService.execute with an arbitrary unit of work.  tRunner is  *)
(* the query runner of the current attempt: inTry tells that the attempt   *)
(* reached the try block, effects what became of the writes of the unit of *)
(* work, timedOut that the timer fired while the unit of work was running. *)
(* A unit of work that never returns simply takes no further step.         *)
(***************************************************************************)
MaxTxOptionRetries == 1

Undefined == -1

NoRunner ==
  [connected |-> FALSE, active |-> FALSE, isReleased |-> FALSE, inTry |-> FALSE,
   releaseCalls |-> 0, rollbackCalls |-> 0, timer |-> "none", effects |-> "none",
   txTimeout |-> 0, stmtTimeout |-> 0, timedOut |-> FALSE,
   rollbackFailed |-> FALSE, strategyFailed |-> FALSE]

(* an isolation level that is none of the four: the empty string, which   *)
(* startTransaction takes as "no level" and which has no entry in          *)
(* ISOLATION_LEVEL_TIMEOUTS                                                *)
UnknownLevel == ""

(* execute(callback, isolationLevel, timeout, statementTimeout, options) *)
TxArgs ==
  [isolationLevel : IsolationLevels \cup {UnknownLevel}, timeout : {Undefined, 100},
   statementTimeout : {Undefined, 30},
   retryOnDeadlock : BOOLEAN, maxRetries : {Undefined} \cup 0..MaxTxOptionRetries]

(* ISOLATION_LEVEL_TIMEOUTS[isolationLevel]: undefined (falsy, here 0) for  *)
(* a level that is not a key of the table                                  *)
levelTimeout(isolationLevel) ==
  IF isolationLevel \in DOMAIN ISOLATION_LEVEL_TIMEOUTS
  THEN ISOLATION_LEVEL_TIMEOUTS[isolationLevel] ELSE 0

(* timeout || ISOLATION_LEVEL_TIMEOUTS[isolationLevel] || DEFAULT_TRANSACTION_TIMEOUT *)
resolveTxTimeout(args) ==
  IF args.timeout # Undefined /\ args.timeout # 0 THEN args.timeout
  ELSE IF levelTimeout(args.isolationLevel) # 0
       THEN levelTimeout(args.isolationLevel)
       ELSE DEFAULT_TRANSACTION_TIMEOUT

(* a statement timeout of half the transaction timeout, without the cap *)
resolveStmtTimeoutUncapped(args, txTimeout) ==
  IF args.statementTimeout # Undefined /\ args.statementTimeout # 0
  THEN args.statementTimeout
  ELSE txTimeout \div 2

(* statementTimeout || Math.min(txTimeout / 2, DEFAULT_STATEMENT_TIMEOUT) *)
resolveStmtTimeout(args, txTimeout) ==
  IF args.statementTimeout # Undefined /\ args.statementTimeout # 0
  THEN args.statementTimeout
  ELSE Min(txTimeout \div 2, DEFAULT_STATEMENT_TIMEOUT)

(* a default of one retry more *)
txMaxRetriesPlusOne(args) ==
  IF args.maxRetries = Undefined THEN DEFAULT_MAX_RETRIES + 1 ELSE args.maxRetries

(* options?.maxRetries ?? DEFAULT_MAX_RETRIES *)
txMaxRetries(args) ==
  IF args.maxRetries = Undefined THEN DEFAULT_MAX_RETRIES ELSE args.maxRetries

(* the errors a unit of work can throw *)
UowErrors(obj) ==
  {NotFoundException(obj), InsufficientQuantity(obj), DeadlockError(obj),
   SerializationFailure(obj), LockNotAvailable(obj), StatementTimeoutError(obj),
   Err("Error", "Different error", obj), Err("Error", "deadlock detected", obj)}

(* the errors commitTransaction can fail with *)
CommitErrors(obj) ==
  {SerializationFailure(obj), Err("QueryFailedError", "connection terminated", obj)}

TxIdle ==
  /\ tpc = "idle"
  /\ tArgs = [isolationLevel |-> "READ COMMITTED", timeout |-> Undefined,
              statementTimeout |-> Undefined,
              retryOnDeadlock |-> TRUE, maxRetries |-> Undefined]
  /\ tRetries = 0
  /\ tRunner = NoRunner
  /\ tError = NoError
  /\ tOutcome = [status |-> "pending", error |-> NoError]
  /\ tRuns = 0
  /\ tRunners = 0

TxInit ==
  /\ tpc = "begin"
  /\ tArgs \in TxArgs
  /\ tRetries = 0
  /\ tRunner = NoRunner
  /\ tError = NoError
  /\ tOutcome = [status |-> "pending", error |-> NoError]
  /\ tRuns = 0
  /\ tRunners = 0

(* the catch block of execute, for an error thrown by executeTransaction *)
ExecuteCatch(e) ==
  IF tArgs.retryOnDeadlock /\ isRetryable(e) /\ tRetries < txMaxRetries(tArgs)
  THEN /\ tRetries' = tRetries + 1
       /\ tpc' = "begin"
       /\ UNCHANGED tOutcome
  ELSE /\ tOutcome' = [status |-> "thrown", error |-> e]
       /\ tpc' = "done"
       /\ UNCHANGED tRetries

(* a finally block that releases without looking at isReleased *)
finallyReleasesAlways(runner) == TRUE

(* the guard of the release in the finally block *)
finallyReleases(runner) == ~runner.isReleased

(* an executeTransaction without the finally block *)
afterFinallyWithoutCleanup(runner) == runner

(* a finally block that leaves the timer armed *)
afterFinallyKeepsTimer(runner) ==
  [runner EXCEPT !.isReleased = TRUE,
                 !.releaseCalls = IF finallyReleases(runner) THEN @ + 1 ELSE @]

(* finally { clearTimeout(timeoutHandle); if (!isReleased) release() } *)
afterFinally(runner) ==
  [runner EXCEPT !.timer = IF @ = "armed" THEN "cleared" ELSE @,
                 !.isReleased = TRUE,
                 !.releaseCalls = IF finallyReleases(runner) THEN @ + 1 ELSE @]

(* createQueryRunner, connect, startTransaction, SET statement_timeout and *)
(* the arming of the timer; step is the statement that fails, if any.      *)
TxBegin(step) ==
  /\ tpc = "begin"
  /\ tRunners' = tRunners + 1
  /\ UNCHANGED << tArgs, bvars, rvars, svars >>
  /\ IF step = "ok"
     THEN /\ tRunner' = [NoRunner EXCEPT !.connected = TRUE, !.active = TRUE, !.inTry = TRUE,
                           !.txTimeout = resolveTxTimeout(tArgs),
                           !.stmtTimeout = resolveStmtTimeout(tArgs, resolveTxTimeout(tArgs)),
                           !.timer = IF resolveTxTimeout(tArgs) > 0 THEN "armed" ELSE "none"]
          /\ tRuns' = tRuns + 1
          /\ tpc' = "work"
          /\ UNCHANGED << tRetries, tError, tOutcome >>
     ELSE /\ tRunner' = [NoRunner EXCEPT !.connected = step # "connect",
                                         !.active = step = "SET statement_timeout"]
          /\ tError' = Err("QueryFailedError", "connection terminated", 0)
          /\ ExecuteCatch(Err("QueryFailedError", "connection terminated", 0))
          /\ UNCHANGED tRuns

(* the unit of work writes through the entity manager *)
UowWrite ==
  /\ tpc = "work"
  /\ ~tRunner.isReleased
  /\ tRunner.effects = "none"
  /\ tRunner' = [tRunner EXCEPT !.effects = "pending"]
  /\ UNCHANGED << tpc, tArgs, tRetries, tError, tOutcome, tRuns, tRunners, bvars, rvars, svars >>

(* the unit of work throws e: the catch block calls handleRollback *)
UowThrows(e) ==
  /\ tpc = "work"
  /\ tError' = e
  /\ tpc' = "rollback"
  /\ UNCHANGED << tArgs, tRetries, tRunner, tOutcome, tRuns, tRunners, bvars, rvars, svars >>

(* the unit of work returns: commitTransaction is called; on a query       *)
(* runner the timer has released it throws.                                *)
UowReturns ==
  /\ tpc = "work"
  /\ IF tRunner.isReleased
     THEN /\ tError' = AlreadyReleasedError(tRuns)
          /\ tpc' = "rollback"
     ELSE /\ tpc' = "commit"
          /\ UNCHANGED tError
  /\ UNCHANGED << tArgs, tRetries, tRunner, tOutcome, tRuns, tRunners, bvars, rvars, svars >>

(* commitTransaction succeeds: the result is returned through finally *)
CommitSucceeds ==
  /\ tpc = "commit"
  /\ tRunner' = afterFinally([tRunner EXCEPT !.active = FALSE,
                     !.effects = IF @ = "pending" THEN "committed" ELSE @])
  /\ tOutcome' = [status |-> "returned", error |-> NoError]
  /\ tpc' = "done"
  /\ UNCHANGED << tArgs, tRetries, tError, tRuns, tRunners, bvars, rvars, svars >>

(* commitTransaction fails with e: the catch block calls handleRollback *)
CommitFails(e) ==
  /\ tpc = "commit"
  /\ tRunner' = [tRunner EXCEPT !.effects = IF @ = "pending" THEN "rolledBack" ELSE @]
  /\ tError' = e
  /\ tpc' = "rollback"
  /\ UNCHANGED << tArgs, tRetries, tOutcome, tRuns, tRunners, bvars, rvars, svars >>

(* a catch block that throws the error of the failed rollback instead *)
rethrownRollbackError(error, rollbackFailed, strategyFailed) ==
  IF rollbackFailed THEN Err("QueryFailedError", "rollback failed", error.obj) ELSE error

(* handleRollback catches the errors of the rollback and of the            *)
(* strategies; then: throw error                                           *)
rethrown(error, rollbackFailed, strategyFailed) == error

(* rollbackTransaction of handleRollback throws: on a released query       *)
(* runner always, otherwise when the statement fails                       *)
rollbackThrows(runner, fails) == runner.isReleased \/ fails

(* handleRollback is over: rollbackTransaction was called (a failure of it *)
(* is caught and logged), the strategies were run (an error thrown by one  *)
(* is caught and logged), and the error of the attempt is rethrown through *)
(* finally to the catch block of execute.                                  *)
RollbackDone(fails, strategyThrows) ==
  /\ tpc = "rollback"
  /\ tRunner' = afterFinally([tRunner EXCEPT
        !.rollbackCalls = @ + 1,
        !.rollbackFailed = rollbackThrows(tRunner, fails),
        !.strategyFailed = strategyThrows,
        !.active = IF rollbackThrows(tRunner, fails) THEN @ ELSE FALSE,
        !.effects = IF ~rollbackThrows(tRunner, fails) /\ @ = "pending"
                    THEN "rolledBack" ELSE @])
  /\ ExecuteCatch(rethrown(tError, rollbackThrows(tRunner, fails), strategyThrows))
  /\ UNCHANGED << tArgs, tError, tRuns, tRunners, bvars, rvars, svars >>

(* the timeout callback: if (!isReleased) { rollbackTransaction(); release() } *)
(* It runs whenever the timer set by setTimeout is still armed.             *)
TimerFires ==
  /\ tRunner.timer = "armed"
  /\ tRunner' =
       IF tRunner.isReleased
       THEN [tRunner EXCEPT !.timer = "fired"]
       ELSE [tRunner EXCEPT !.timer = "fired",
                            !.rollbackCalls = @ + 1,
                            !.releaseCalls = @ + 1,
                            !.isReleased = TRUE,
                            !.timedOut = tpc = "work",
                            !.active = IF tpc \in {"work", "rollback"} THEN FALSE ELSE @,
                            !.effects = IF tpc \in {"work", "rollback"} /\ @ = "pending"
                                        THEN "rolledBack" ELSE @]
  /\ UNCHANGED << tpc, tArgs, tRetries, tError, tOutcome, tRuns, tRunners, bvars, rvars, svars >>

TxNext ==
  \/ \E step \in {"ok", "connect", "startTransaction", "SET statement_timeout"} : TxBegin(step)
  \/ UowWrite
  \/ \E e \in UowErrors(tRuns) \cup {AlreadyReleasedError(tRuns)} : UowThrows(e)
  \/ UowReturns
  \/ CommitSucceeds
  \/ \E e \in CommitErrors(tRuns) : CommitFails(e)
  \/ \E fails, strategyThrows \in BOOLEAN : RollbackDone(fails, strategyThrows)
  \/ TimerFires

(***************************************************************************)
(* The availability checks of the booking API: checkAvailability reads the *)
(* row with a shared row lock (FOR SHARE, no NOWAIT) in a REPEATABLE READ  *)
(* transaction, checkAvailabilityOptimistic reads it without a lock at     *)
(* READ COMMITTED.  A shared lock excludes the exclusive lock of a writer  *)
(* and the other way round; shared locks do not exclude one another.       *)
(***************************************************************************)
(* the shared row lock is free for p: no other transaction holds the row   *)
(* exclusively                                                             *)
ShareLockAvailable(p) ==
  \A r \in rowLock \ {p} : call[r].kind = "checkAvailability"

(* ticket.quantity > quantity *)
AvailableStrict(quantity, qty) == quantity > qty

(* return ticket.quantity >= quantity *)
Available(quantity, qty) == quantity >= qty

(* findOne of checkAvailability: SELECT ... FOR SHARE in a REPEATABLE READ *)
(* transaction; it waits while a writer holds the row.                     *)
FindOneShared(p) ==
  /\ pc[p] = "findOne"
  /\ call[p].kind = "checkAvailability"
  /\ UNCHANGED << rvars, tvars, svars >>
  /\ UNCHANGED << db, call, log, q0 >>
  /\ LET run == uowRuns(p) IN
     IF tx[p].isReleased
     THEN Fail(p, AlreadyReleasedError(run)) /\ UNCHANGED ticket
     ELSE IF call[p].id \notin Existing
     THEN Fail(p, NotFoundException(run)) /\ UNCHANGED ticket
     ELSE IF tx[p].snapshot # db.version
     THEN Fail(p, SerializationFailure(run)) /\ UNCHANGED ticket
     ELSE /\ ShareLockAvailable(p)
          /\ rowLock' = rowLock \cup {p}
          /\ ticket' = [ticket EXCEPT ![p] = db]
          /\ trace' = [trace EXCEPT ![p][Len(trace[p])].read = db.version]
          /\ pc' = [pc EXCEPT ![p] = "return"]
          /\ UNCHANGED << tx, retries, currentRetry, sleeps, result >>

(* findOne of checkAvailabilityOptimistic: a plain read of the committed   *)
(* row.                                                                    *)
FindOneUnlocked(p) ==
  /\ pc[p] = "findOne"
  /\ call[p].kind = "checkAvailabilityOptimistic"
  /\ UNCHANGED << rvars, tvars, svars >>
  /\ UNCHANGED << db, call, log, q0 >>
  /\ LET run == uowRuns(p) IN
     IF tx[p].isReleased
     THEN Fail(p, AlreadyReleasedError(run)) /\ UNCHANGED ticket
     ELSE IF call[p].id \notin Existing
     THEN Fail(p, NotFoundException(run)) /\ UNCHANGED ticket
     ELSE /\ ticket' = [ticket EXCEPT ![p] = db]
          /\ trace' = [trace EXCEPT ![p][Len(trace[p])].read = db.version]
          /\ pc' = [pc EXCEPT ![p] = "return"]
          /\ UNCHANGED << rowLock, tx, retries, currentRetry, sleeps, result >>

(* the FOR SHARE read waits for the row lock of a writer until the         *)
(* statement timeout cancels it.                                           *)
ShareLockTimeout(p) ==
  /\ pc[p] = "findOne"
  /\ call[p].kind = "checkAvailability"
  /\ UNCHANGED << rvars, tvars, svars >>
  /\ ~tx[p].isReleased
  /\ call[p].id \in Existing
  /\ tx[p].snapshot = db.version
  /\ ~ShareLockAvailable(p)
  /\ Fail(p, StatementTimeoutError(uowRuns(p)))
  /\ UNCHANGED << db, call, ticket, log, q0 >>

(* the unit of work returns ticket.quantity >= quantity: commitTransaction *)
(* (nothing was written), finally, return of the boolean.                  *)
ReturnAvailable(p) ==
  /\ pc[p] = "return"
  /\ UNCHANGED << rvars, tvars, svars >>
  /\ UNCHANGED << db, call, ticket, log, q0 >>
  /\ IF tx[p].isReleased
     THEN Fail(p, AlreadyReleasedError(uowRuns(p)))
     ELSE /\ rowLock' = rowLock \ {p}
          /\ tx' = [tx EXCEPT ![p] = [NoTx EXCEPT !.isReleased = TRUE]]
          /\ result' = [result EXCEPT ![p] =
                [Pending EXCEPT !.status = "ok",
                                !.available = Available(ticket[p].quantity, call[p].qty)]]
          /\ pc' = [pc EXCEPT ![p] = "done"]
          /\ UNCHANGED << retries, currentRetry, sleeps, trace >>

(* caller 1 makes an availability check, the others any call of the API *)
AvailabilityInit ==
  /\ q0 \in 0..MaxInitQty
  /\ db = [quantity |-> q0, version |-> INITIAL_VERSION]
  /\ rowLock = {}
  /\ call \in [Procs -> AllCalls]
  /\ call[1].kind \in AvailabilityKinds
  /\ \A p \in Procs : \A r \in Procs :
        (1 < p /\ p < r) => CallRank(call[p]) <= CallRank(call[r])
  /\ pc = [p \in Procs |-> "execute"]
  /\ tx = [p \in Procs |-> NoTx]
  /\ ticket = [p \in Procs |-> NoTicket]
  /\ retries = [p \in Procs |-> 0]
  /\ currentRetry = [p \in Procs |-> 0]
  /\ sleeps = [p \in Procs |-> 0]
  /\ result = [p \in Procs |-> Pending]
  /\ log = << >>
  /\ trace = [p \in Procs |-> << >>]

AvailabilityNext ==
  \/ BookingNext
  \/ \E p \in Procs :
        \/ FindOneShared(p)
        \/ FindOneUnlocked(p)
        \/ ShareLockTimeout(p)
        \/ ReturnAvailable(p)

(***************************************************************************)
(* The specifications.                                                     *)
(***************************************************************************)
Init == BookingInit /\ RetryIdle /\ TxIdle /\ StrategiesRegistered

Next == BookingNext

Spec == Init /\ [][Next]_vars

InitRetry == BookingIdle /\ RetryInit /\ TxIdle /\ StrategiesRegistered

SpecRetry == InitRetry /\ [][RetryNext]_vars

InitTx == BookingIdle /\ RetryIdle /\ TxInit /\ StrategiesRegistered

SpecTx == InitTx /\ [][TxNext]_vars

InitAvailability == AvailabilityInit /\ RetryIdle /\ TxIdle /\ StrategiesRegistered

SpecAvailability == InitAvailability /\ [][AvailabilityNext]_vars


(***************************************************************************)
(* Properties of the booking API (specification Spec).                     *)
(***************************************************************************)
AllDone == \A p \in Procs : pc[p] = "done"

Succeeded(p) == result[p].status = "ok"

(* the change of quantity a call reports when it returns success *)
Delta(p) ==
  IF ~Succeeded(p) THEN 0
  ELSE IF isBookingKind(call[p].kind) THEN 0 - call[p].qty ELSE call[p].qty

RECURSIVE SumDeltas(_)
SumDeltas(S) ==
  IF S = {} THEN 0
  ELSE LET p == CHOOSE x \in S : TRUE IN Delta(p) + SumDeltas(S \ {p})

(* C1: once every call has returned, the committed quantity is the initial *)
(* quantity minus the quantities booked plus the quantities released by    *)
(* exactly the calls that returned success.                                *)
C1_NoLostUpdate == AllDone => db.quantity = q0 + SumDeltas(Procs)

(* two calls succeeded, one of them after losing a version check *)
C1_Witness ==
  /\ AllDone
  /\ \E p \in Procs : \E r \in Procs :
        /\ p # r /\ Succeeded(p) /\ Succeeded(r)
        /\ isOptimisticKind(call[p].kind) /\ currentRetry[p] > 0

(* C2: the committed quantity of the ticket is never negative.             *)
C2_QuantityNonNegative == db.quantity >= 0

(* two bookings were committed and sold the ticket out *)
C2_Witness ==
  /\ q0 > 0
  /\ db.quantity = 0
  /\ Len(log) >= 2
  /\ \A i \in 1..Len(log) : isBookingKind(call[log[i].proc].kind)

(* C3: every committed write leaves the version one greater than the       *)
(* version its call read, no two committed writes read the same version,   *)
(* and after k successful writes the version is 1 + k.                     *)
C3_VersionMonotonic ==
  /\ \A i \in 1..Len(log) :
        /\ log[i].after.version = log[i].before + 1
        /\ log[i].after.version = log[i].dbBefore.version + 1
  /\ \A i \in 1..Len(log) : \A j \in 1..Len(log) : i # j => log[i].before # log[j].before
  /\ db.version = INITIAL_VERSION + Len(log)
  /\ Len(log) = Cardinality({p \in Procs : Succeeded(p)})

(* a pessimistic and an optimistic write were both committed *)
C3_Witness ==
  /\ Len(log) >= 2
  /\ \E i \in 1..Len(log) : isOptimisticKind(call[log[i].proc].kind)
  /\ \E i \in 1..Len(log) : ~isOptimisticKind(call[log[i].proc].kind)

isVersionConflict(e) == e.msg = "Version conflict detected"

(* C4: of the optimistic attempts that read one initialVersion at most one *)
(* commits; an attempt raises the version conflict only when another call  *)
(* committed on the version it read, and its next attempt reads a later    *)
(* committed state: the winner's (initialVersion + 1), unless a third call *)
(* committed after the winner.                                             *)
C4_CompareAndSet ==
  /\ \A i \in 1..Len(log) : \A j \in 1..Len(log) :
        (i # j /\ isOptimisticKind(call[log[i].proc].kind)
               /\ isOptimisticKind(call[log[j].proc].kind))
        => log[i].before # log[j].before
  /\ \A p \in Procs : \A i \in 1..Len(trace[p]) :
        isVersionConflict(trace[p][i].err) =>
          \E k \in 1..Len(log) :
             /\ log[k].proc # p
             /\ log[k].before = trace[p][i].read
             /\ (i < Len(trace[p]) /\ trace[p][i + 1].read # 0) =>
                   \/ trace[p][i + 1].read = trace[p][i].read + 1
                   \/ /\ trace[p][i + 1].read > trace[p][i].read + 1
                      /\ \E m \in 1..Len(log) :
                            /\ log[m].proc \notin {p, log[k].proc}
                            /\ log[m].before = trace[p][i].read + 1

(* two optimistic calls read the same version, one committed, the other    *)
(* lost the version check and read the winner's state on its retry         *)
C4_Witness ==
  \E p \in Procs : \E r \in Procs :
     /\ p # r
     /\ isOptimisticKind(call[r].kind) /\ Succeeded(r)
     /\ Len(trace[p]) >= 2
     /\ isVersionConflict(trace[p][1].err)
     /\ trace[r][Len(trace[r])].read = trace[p][1].read
     /\ trace[p][2].read = trace[p][1].read + 1

(* C5: at most one transaction holds the row lock; a pessimistic call that *)
(* has read the row works on the committed row until it commits, and a     *)
(* call that returned an error has written nothing.                        *)
C5_MutualExclusion ==
  /\ Cardinality(rowLock) <= 1
  /\ \A p \in Procs : tx[p].wrote => p \in rowLock
  /\ \A p \in Procs :
        (~isOptimisticKind(call[p].kind) /\ pc[p] \in {"save", "commit"} /\ ~tx[p].isReleased)
        => /\ p \in rowLock
           /\ ticket[p].version = db.version
           /\ ticket[p].quantity = NewQuantity(call[p].kind, db.quantity, call[p].qty)
  /\ \A i \in 1..Len(log) : Succeeded(log[i].proc)

(* one bookTicket holds the lock with its write pending, a concurrent      *)
(* bookTicket was rejected because the lock was not available              *)
C5_Witness ==
  \E p \in Procs : \E r \in Procs :
     /\ p # r
     /\ call[p].kind = "bookTicket" /\ call[r].kind = "bookTicket"
     /\ p \in rowLock /\ tx[p].wrote
     /\ pc[r] = "done" /\ result[r].error.msg = "could not obtain lock on row"

isBusinessRejection(e) ==
  e.class = "NotFoundException" \/ e.msg = "Not enough tickets available"

(* C10: a business rejection (insufficient quantity, ticket not found) of  *)
(* an optimistic operation is never retried: the run that raised it is the *)
(* last one and the rejection itself is the error of the call.             *)
C10_BusinessRejectionNotRetried ==
  \A p \in Procs : \A i \in 1..Len(trace[p]) :
     (isOptimisticKind(call[p].kind) /\ isBusinessRejection(trace[p][i].err))
     => /\ i = Len(trace[p])
        /\ pc[p] = "done"
        /\ result[p].error = trace[p][i].err


(***************************************************************************)
(* Properties of executeWithRetry (specification SpecRetry).               *)
(***************************************************************************)
(* C6: executeWithRetry with maxRetries = N invokes the operation at most  *)
(* N + 1 times; when the loop ends on a retryable error the operation was  *)
(* invoked exactly N + 1 times and a new error naming the context and N is *)
(* thrown, not the last error of the operation.                            *)
C6_RetryBound ==
  /\ rCalls <= rOptions["maxRetries"] + 1
  /\ (rpc = "done" /\ rOutcome.status = "thrown" /\ isOptimisticLockError(rError))
     => /\ rCalls = rOptions["maxRetries"] + 1
        /\ rOutcome.error.msg = "Failed to complete after retries"
        /\ rOutcome.error.ctx = rContext
        /\ rOutcome.error.n = rOptions["maxRetries"]
        /\ rOutcome.error # rError
        /\ rOutcome.error.obj # rError.obj

(* an operation failed with a retryable error on each of its 3 invocations *)
C6_Witness ==
  /\ rpc = "done"
  /\ rOptions["maxRetries"] = 2
  /\ rContext = "test operation"
  /\ rCalls = 3
  /\ rOutcome.status = "thrown"
  /\ rOutcome.error = ConflictAfterRetries("test operation", 2)

(* C7: an error that is not retryable ends executeWithRetry at once: the   *)
(* invocation that threw it is the last one, no backoff sleep follows it   *)
(* (none at all when it was the first invocation) and the caller receives  *)
(* that very error object.                                                 *)
C7_NonRetryablePropagates ==
  (rError # NoError /\ ~isOptimisticLockError(rError))
  => /\ rpc = "done"
     /\ rOutcome.status = "thrown"
     /\ rOutcome.error = rError
     /\ rError.obj = rCalls
     /\ Len(rSlept) = rCalls - 1
     /\ rCurrentRetry = rCalls - 1

(* the first invocation threw a non-retryable error with retries left *)
C7_Witness ==
  /\ rpc = "done"
  /\ rCalls = 1
  /\ rOptions["maxRetries"] = 3
  /\ rSlept = << >>
  /\ rOutcome.status = "thrown"
  /\ rOutcome.error = Err("Error", "Different error", 1)

(***************************************************************************)
(* Properties of TransactionService.execute (specification SpecTx).        *)
(***************************************************************************)
(* an attempt that entered the try block of executeTransaction is over *)
AttemptOver == tRunner.inTry /\ tpc \in {"begin", "done"}

(* C8: the query runner of an attempt that runs the unit of work is        *)
(* released exactly once on every exit path: never twice at any moment,    *)
(* and once when the attempt is over or its timeout has fired.             *)
C8_ReleasedExactlyOnce ==
  /\ tRunner.releaseCalls <= 1
  /\ tRunner.isReleased <=> tRunner.releaseCalls = 1
  /\ AttemptOver => tRunner.releaseCalls = 1
  /\ tRunner.timer = "fired" => tRunner.releaseCalls = 1

(* the timeout fired during the unit of work, which then failed *)
C8_Witness ==
  /\ tpc = "done"
  /\ tRunner.inTry
  /\ tRunner.timer = "fired"
  /\ tOutcome.status = "thrown"
  /\ tRunner.releaseCalls = 1

isTimeoutClass(e) == isStatementTimeoutError(e) \/ e.class = "TimeoutError"

(* C9: when the timeout fires while the unit of work runs, its effects are *)
(* rolled back, the connection is released and the caller of execute       *)
(* observes a timeout-class error.                                         *)
C9_TimeoutObserved ==
  (tpc = "done" /\ tRunner.timedOut)
  => /\ tRunner.effects # "committed"
     /\ tRunner.isReleased
     /\ tOutcome.status = "thrown"
     /\ isTimeoutClass(tOutcome.error)

(***************************************************************************)
(* Scenarios of executeWithRetry (specification SpecRetry).                *)
(***************************************************************************)
(* C11: executeWithRetry with maxRetries = 2 that ends on an operation     *)
(* throwing a deadlock error has invoked the operation 3 times and throws  *)
(* the terminal error naming the context and the 2 retries.                *)
C11_DeadlockExhaustsRetries ==
  (rpc = "done" /\ rOptions["maxRetries"] = 2 /\ isDeadlockError(rError))
  => /\ rCalls = 3
     /\ rOutcome.status = "thrown"
     /\ rOutcome.error = ConflictAfterRetries(rContext, 2)

(* C17: when executeWithRetry returns, it returns the result of the last   *)
(* invocation of the operation; the operation was invoked once and nothing *)
(* slept when the first invocation succeeded, and k + 1 times after k      *)
(* retryable failures, k <= maxRetries, each followed by one sleep.        *)
C17_ReturnsAfterRetries ==
  rOutcome.status = "returned" =>
    /\ rpc = "done"
    /\ rOutcome.value = rCalls
    /\ rCalls = rCurrentRetry + 1
    /\ Len(rSlept) = rCurrentRetry
    /\ rCurrentRetry <= rOptions["maxRetries"]
    /\ rCalls = 1 <=> rError = NoError
    /\ rCalls > 1 => isOptimisticLockError(rError)

(* the operation failed twice with a retryable error and then succeeded *)
C17_Witness ==
  /\ rpc = "done"
  /\ rOptions["maxRetries"] = 3
  /\ rOutcome = [status |-> "returned", error |-> NoError, value |-> 3]
  /\ rCalls = 3
  /\ Len(rSlept) = 2
  /\ isOptimisticLockError(rError)

(***************************************************************************)
(* Scenarios of the optimistic operations (specification SpecLive).         *)
(***************************************************************************)
(* concurrent callers of the optimistic operations only *)
OptimisticInit == BookingInit /\ \A p \in Procs : isOptimisticKind(call[p].kind)

OptimisticNext ==
  \E p \in Procs :
     \/ BeginTransaction(p)
     \/ FindOne(p)
     \/ ConditionalUpdate(p)
     \/ StatementTimeout(p)
     \/ CommitTransaction(p)
     \/ TransactionTimeout(p)

(* the steps of p's call that the event loop and the database complete by  *)
(* themselves: every awaited statement whose row lock is free returns      *)
Progress(p) ==
  \/ BeginTransaction(p)
  \/ FindOne(p)
  \/ ConditionalUpdate(p)
  \/ CommitTransaction(p)

(* the optimistic operations with every call making progress; the timeouts *)
(* may fire or not                                                         *)
InitLive == OptimisticInit /\ RetryIdle /\ TxIdle /\ StrategiesRegistered

SpecLive == InitLive /\ [][OptimisticNext]_vars /\ \A p \in Procs : WF_vars(Progress(p))

(* a statement timeout or the transaction timeout hit a run of p's call *)
timedOut(p) ==
  \E i \in 1..Len(trace[p]) :
     \/ isStatementTimeoutError(trace[p][i].err)
     \/ trace[p][i].err.class = "QueryRunnerAlreadyReleasedError"

Committers == {log[i].proc : i \in 1..Len(log)}

(* p and r are bookTicketOptimistic(t1, u, 1) calls that have returned     *)
(* after both read the same version of a ticket of quantity >= 2, no       *)
(* timeout hit them and no other call wrote the ticket                     *)
RacedBookings(p, r) ==
  /\ p # r
  /\ call[p] = [kind |-> "bookTicketOptimistic", id |-> "t1", qty |-> 1]
  /\ call[r] = call[p]
  /\ q0 >= 2
  /\ pc[p] = "done" /\ pc[r] = "done"
  /\ trace[p][1].read # 0
  /\ trace[p][1].read = trace[r][1].read
  /\ ~timedOut(p) /\ ~timedOut(r)
  /\ Committers \subseteq {p, r}

(* p committed directly, r lost the version check once and then committed *)
WonThenLost(p, r) ==
  LET v == trace[p][1].read IN
  /\ Len(trace[p]) = 1
  /\ result[p] = [Pending EXCEPT !.status = "ok",
                                  !.value = [quantity |-> q0 - 1, version |-> v + 1]]
  /\ Len(trace[r]) = 2
  /\ isVersionConflict(trace[r][1].err)
  /\ trace[r][2].read = v + 1
  /\ result[r] = [Pending EXCEPT !.status = "ok",
                                  !.value = [quantity |-> q0 - 2, version |-> v + 2]]
  /\ db = [quantity |-> q0 - 2, version |-> v + 2]

C12_Outcome ==
  \A p \in Procs : \A r \in Procs :
     RacedBookings(p, r) => (WonThenLost(p, r) \/ WonThenLost(r, p))

(* C12: two concurrent bookTicketOptimistic(t1, u, 1) calls that read the  *)
(* same version v of a ticket of quantity q >= 2 both return, and (when no *)
(* timeout hits them and nobody else writes the ticket) both return        *)
(* success: one commits (q - 1, v + 1) directly, the other loses the       *)
(* version check, re-reads v + 1 and commits (q - 2, v + 2), which is the  *)
(* final state under every interleaving.                                   *)
C12_BothBookingsSucceed == []C12_Outcome /\ <>AllDone

(* two raced bookings returned, the second after one version conflict *)
C12_Witness ==
  /\ AllDone
  /\ RacedBookings(1, 2)
  /\ WonThenLost(2, 1)
  /\ sleeps[1] = 1

(* p is a bookTicketOptimistic(t1, u, n) request that has not started, on  *)
(* a ticket of sufficient quantity whose version a committed write has     *)
(* changed, while no other call is in flight                               *)
IssuedAfterWrite(p) ==
  /\ call[p].kind = "bookTicketOptimistic" /\ call[p].id = "t1"
  /\ pc[p] = "execute" /\ uowRuns(p) = 0
  /\ \A r \in Procs \ {p} : pc[r] = "done"
  /\ db.version > INITIAL_VERSION
  /\ db.quantity >= call[p].qty

isConflict(e) == e.class = "ConflictException"

(* C20: a bookTicketOptimistic request issued after another committed      *)
(* write has changed the version of the ticket, with no other writer in    *)
(* flight and a sufficient quantity, is rejected with a conflict error.    *)
C20_StaleVersionRejected ==
  \A p \in Procs :
     [](IssuedAfterWrite(p) =>
          []((pc[p] = "done" /\ ~timedOut(p)) =>
               (result[p].status = "error" /\ isConflict(result[p].error))))

(***************************************************************************)
(* Scenarios of the booking operations (specification Spec).               *)
(***************************************************************************)
(* C15: a bookTicketOptimistic(id, u, n) that returns success read the     *)
(* ticket at some (q, v) in its last run and returns exactly               *)
(* (q - n, v + 1), a releaseTicketOptimistic (q + n, v + 1): the row it    *)
(* committed, whatever other writers commit afterwards.                    *)
C15_ReturnsOwnUpdate ==
  \A p \in Procs :
     (isOptimisticKind(call[p].kind) /\ Succeeded(p)) =>
       \E k \in 1..Len(log) :
          LET q == log[k].dbBefore.quantity
              v == trace[p][Len(trace[p])].read
          IN /\ log[k].proc = p
             /\ log[k].dbBefore.version = v
             /\ result[p].value =
                  [quantity |-> IF call[p].kind = "bookTicketOptimistic"
                                THEN q - call[p].qty ELSE q + call[p].qty,
                   version |-> v + 1]
             /\ result[p].value = log[k].after

(* an optimistic booking returned (q0 - 1, 2) and an optimistic release    *)
(* committed after it                                                      *)
C15_Witness ==
  \E p \in Procs : \E r \in Procs :
     /\ call[p] = [kind |-> "bookTicketOptimistic", id |-> "t1", qty |-> 1]
     /\ call[r].kind = "releaseTicketOptimistic"
     /\ Succeeded(p) /\ Succeeded(r)
     /\ result[p].value = [quantity |-> q0 - 1, version |-> INITIAL_VERSION + 1]
     /\ result[r].value = [quantity |-> q0, version |-> INITIAL_VERSION + 2]
     /\ db = result[r].value

(***************************************************************************)
(* Scenarios of the pessimistic operations (specification Spec).           *)
(***************************************************************************)
isInsufficientQuantity(e) ==
  e.class = "ConflictException" /\ e.msg = "Not enough tickets available"

isNotFound(e) == e.class = "NotFoundException"

(* C14: a call of any of the six booking operations with an id for which   *)
(* no ticket exists runs its unit of work once, without a retry of execute *)
(* or of executeWithRetry and without a backoff sleep, and throws the      *)
(* NotFoundException of that run (unless the transaction timeout released  *)
(* the query runner before the read); it never holds the row lock, writes  *)
(* nothing and commits nothing.                                            *)
C14_MissingTicketNotFound ==
  \A p \in Procs :
     call[p].id \notin Existing =>
       /\ uowRuns(p) <= 1
       /\ retries[p] = 0 /\ currentRetry[p] = 0 /\ sleeps[p] = 0
       /\ p \notin rowLock
       /\ ~tx[p].wrote
       /\ p \notin Committers
       /\ pc[p] \in {"execute", "findOne", "done"}
       /\ pc[p] = "done" =>
            /\ uowRuns(p) = 1
            /\ result[p] = [Pending EXCEPT !.status = "error", !.error = trace[p][1].err]
            /\ isNotFound(trace[p][1].err) \/ timedOut(p)
       /\ (pc[p] = "done" /\ ~timedOut(p)) => isNotFound(result[p].error)

(* an availability check and an optimistic booking of a missing ticket     *)
(* both ended with NotFound, the existing row is as it was created         *)
C14_Witness ==
  /\ AllDone
  /\ call[1].kind = "checkAvailability" /\ call[1].id = "t0"
  /\ call[2].kind = "bookTicketOptimistic" /\ call[2].id = "t0"
  /\ isNotFound(result[1].error) /\ isNotFound(result[2].error)
  /\ uowRuns(1) = 1 /\ uowRuns(2) = 1
  /\ db = [quantity |-> q0, version |-> INITIAL_VERSION]

(* the committed states the ticket row has had *)
CommittedRows ==
  {[quantity |-> q0, version |-> INITIAL_VERSION]} \cup {log[k].after : k \in 1..Len(log)}

C16_ReturnsComparison ==
  \A p \in Procs :
     call[p].kind \in AvailabilityKinds =>
       /\ ~tx[p].wrote
       /\ p \notin Committers
       /\ pc[p] = "return" =>
            /\ ticket[p] \in CommittedRows
            /\ ticket[p].version = trace[p][Len(trace[p])].read
            /\ (call[p].kind = "checkAvailability" /\ ~tx[p].isReleased) => ticket[p] = db
       /\ Succeeded(p) =>
            /\ ticket[p] \in CommittedRows
            /\ result[p].available = (ticket[p].quantity >= call[p].qty)
            /\ result[p].value = NoTicket

(* every change of the committed row is the commit of a write operation *)
C16_OnlyWritersChange ==
  db' # db =>
    \E p \in Procs :
       /\ call[p].kind \notin AvailabilityKinds
       /\ pc[p] = "commit" /\ pc'[p] = "done"
       /\ Len(log') = Len(log) + 1
       /\ log'[Len(log')].proc = p

(* C16: checkAvailability(id, n) and checkAvailabilityOptimistic(id, n)    *)
(* return true exactly when the quantity of the committed row they read in *)
(* their transaction is >= n, and no step of theirs changes the quantity   *)
(* or the version of the ticket.                                           *)
C16_AvailabilityReadOnly == []C16_ReturnsComparison /\ [][C16_OnlyWritersChange]_vars

(* after a booking sold the ticket out, a check for 1 returned false and   *)
(* left the row as the booking committed it                                *)
C16_Witness ==
  /\ AllDone
  /\ q0 = 1
  /\ call[1] = [kind |-> "checkAvailability", id |-> "t1", qty |-> 1]
  /\ call[2].kind = "bookTicket"
  /\ Succeeded(1) /\ Succeeded(2)
  /\ result[1].available = FALSE
  /\ db = [quantity |-> 0, version |-> INITIAL_VERSION + 1]

isLockNotAvailable(e) ==
  e.class = "QueryFailedError" /\ e.msg = "could not obtain lock on row"

(* a bookTicket / releaseTicket never waits at its findOne, and the run    *)
(* that could not get the row lock is the last run of the call             *)
C19_NotRetried ==
  \A p \in Procs :
     isPessimisticKind(call[p].kind) =>
       /\ pc[p] = "findOne" => ENABLED FindOneLocked(p)
       /\ \A i \in 1..Len(trace[p]) :
             isLockNotAvailable(trace[p][i].err) =>
               /\ i = Len(trace[p])
               /\ i = retries[p] + 1
               /\ \A j \in 1..(i - 1) :
                     trace[p][j].err = SerializationFailure(j)
               /\ pc[p] = "done"
               /\ result[p] = [Pending EXCEPT !.status = "error",
                                               !.error = trace[p][i].err]
               /\ p \notin Committers
               /\ p \notin rowLock
               /\ ~tx[p].wrote

(* the findOne of a bookTicket / releaseTicket that finds the row locked   *)
(* by another transaction ends the call at once with the lock error, and   *)
(* the call ends with that error only then; the row and the lock of the    *)
(* holder are untouched                                                    *)
C19_FailsAtOnce ==
  \A p \in Procs :
     (isPessimisticKind(call[p].kind) /\ pc[p] = "findOne" /\ pc'[p] # pc[p]) =>
       /\ (/\ rowLock \ {p} # {} /\ ~tx[p].isReleased
           /\ call[p].id \in Existing /\ tx[p].snapshot = db.version)
          <=> (pc'[p] = "done" /\ isLockNotAvailable(result'[p].error))
       /\ isLockNotAvailable(result'[p].error) => (db' = db /\ rowLock' = rowLock)

isContentionError(e) ==
  /\ e.class = "QueryFailedError"
  /\ e.msg \in {"deadlock detected", "could not serialize access due to concurrent update"}

(* C18: with the default strategies, isRetryable reports a deadlock and a  *)
(* serialization failure retryable, and a lock timeout, a statement        *)
(* timeout and an error no strategy matches not retryable: execute starts  *)
(* another attempt only after the former, and with retries left it throws  *)
(* only the latter.                                                        *)
C18_Classification ==
  /\ (tpc = "begin" /\ tRetries > 0) => isContentionError(tError)
  /\ (/\ tpc = "done" /\ tOutcome.status = "thrown"
      /\ tArgs.retryOnDeadlock /\ tRetries < txMaxRetries(tArgs))
     => ~isContentionError(tOutcome.error)

(* a deadlock was retried, the lock timeout of the second attempt was      *)
(* thrown with retries left                                                *)
C18_Witness ==
  /\ tpc = "done"
  /\ tArgs.retryOnDeadlock
  /\ tRetries = 1
  /\ txMaxRetries(tArgs) = DEFAULT_MAX_RETRIES
  /\ tRuns = 2
  /\ tOutcome = [status |-> "thrown", error |-> LockNotAvailable(2)]

(***************************************************************************)
(* TicketsController.testOptimisticConcurrency: updateCount optimistic     *)
(* operations of quantity 1 on one ticket, started together; those with an *)
(* even index are bookings, the others releases (specification             *)
(* SpecConcurrentTest).                                                    *)
(***************************************************************************)
updateCount == 5

(* the model starts the first MaxUpdates operations of the array *)
MaxUpdates == 3

TestProcs == 1..Min(updateCount, MaxUpdates)

(* the operation with the given index of the updateOperations array *)
updateOperation(index) ==
  [kind |-> IF index % 2 = 0 THEN "bookTicketOptimistic" ELSE "releaseTicketOptimistic",
   id |-> "t1", qty |-> 1]

ConcurrentTestInit ==
  /\ q0 \in 0..MaxInitQty
  /\ db = [quantity |-> q0, version |-> INITIAL_VERSION]
  /\ rowLock = {}
  /\ call = [p \in TestProcs |-> updateOperation(p - 1)]
  /\ pc = [p \in TestProcs |-> "execute"]
  /\ tx = [p \in TestProcs |-> NoTx]
  /\ ticket = [p \in TestProcs |-> NoTicket]
  /\ retries = [p \in TestProcs |-> 0]
  /\ currentRetry = [p \in TestProcs |-> 0]
  /\ sleeps = [p \in TestProcs |-> 0]
  /\ result = [p \in TestProcs |-> Pending]
  /\ log = << >>
  /\ trace = [p \in TestProcs |-> << >>]

ConcurrentTestNext ==
  \E p \in TestProcs :
     \/ BeginTransaction(p)
     \/ FindOne(p)
     \/ ConditionalUpdate(p)
     \/ StatementTimeout(p)
     \/ CommitTransaction(p)
     \/ TransactionTimeout(p)

InitConcurrentTest == ConcurrentTestInit /\ RetryIdle /\ TxIdle /\ StrategiesRegistered

SpecConcurrentTest == InitConcurrentTest /\ [][ConcurrentTestNext]_vars

(* await Promise.all(updateOperations) is over *)
TestSettled == \A p \in TestProcs : pc[p] = "done"

(* an operation that no timeout hit and that the initial quantity allows *)
CanCommit(p) ==
  /\ ~timedOut(p)
  /\ call[p].kind = "releaseTicketOptimistic" \/ q0 >= 1

NoLevel == "undefined"

(* the decorations of a handler: Transaction() without options, and        *)
(* Transaction(options) with some or all of the options                    *)
TransactionDecoratorOptions ==
  {<< >>, [timeout |-> 100], [retryOnDeadlock |-> FALSE]}
  \cup {[isolationLevel |-> l] : l \in IsolationLevels}
  \cup {[isolationLevel |-> l, timeout |-> 100, retryOnDeadlock |-> b, maxRetries |-> n] :
          l \in IsolationLevels, b \in BOOLEAN, n \in 0..MaxTxOptionRetries}

(* SetMetadata(KEY, options?.key) for each key, as the interceptor reads   *)
(* it back and hands it to execute (options?.retryOnDeadlock ?? true)      *)
Transaction(options) ==
  [isolationLevel |-> IF "isolationLevel" \in DOMAIN options
                      THEN options.isolationLevel ELSE NoLevel,
   timeout |-> IF "timeout" \in DOMAIN options THEN options.timeout ELSE Undefined,
   statementTimeout |-> IF "statementTimeout" \in DOMAIN options
                        THEN options.statementTimeout ELSE Undefined,
   retryOnDeadlock |-> IF "retryOnDeadlock" \in DOMAIN options
                       THEN options.retryOnDeadlock ELSE TRUE,
   maxRetries |-> IF "maxRetries" \in DOMAIN options THEN options.maxRetries ELSE Undefined]

(* a request reaches a decorated handler *)
InterceptInit ==
  /\ tpc = "intercept"
  /\ tArgs \in {Transaction(options) : options \in TransactionDecoratorOptions}
  /\ tRetries = 0
  /\ tRunner = NoRunner
  /\ tError = NoError
  /\ tOutcome = [status |-> "pending", error |-> NoError]
  /\ tRuns = 0
  /\ tRunners = 0

(* if (!isolationLevel) return next.handle() *)
OpensTransaction(isolationLevel) == isolationLevel # NoLevel

(* intercept: without an isolation level the handler is called directly,   *)
(* otherwise execute is called with the handler as the unit of work        *)
Intercept ==
  /\ tpc = "intercept"
  /\ tpc' = IF OpensTransaction(tArgs.isolationLevel) THEN "begin" ELSE "handler"
  /\ UNCHANGED << tArgs, tRetries, tRunner, tError, tOutcome, tRuns, tRunners, bvars, rvars, svars >>

(* next.handle() of a handler called directly returns *)
HandlerReturns ==
  /\ tpc = "handler"
  /\ tOutcome' = [status |-> "returned", error |-> NoError]
  /\ tpc' = "done"
  /\ UNCHANGED << tArgs, tRetries, tRunner, tError, tRuns, tRunners, bvars, rvars, svars >>

(* next.handle() of a handler called directly throws e *)
HandlerThrows(e) ==
  /\ tpc = "handler"
  /\ tError' = e
  /\ tOutcome' = [status |-> "thrown", error |-> e]
  /\ tpc' = "done"
  /\ UNCHANGED << tArgs, tRetries, tRunner, tRuns, tRunners, bvars, rvars, svars >>

InterceptorNext ==
  \/ Intercept
  \/ HandlerReturns
  \/ \E e \in UowErrors(0) : HandlerThrows(e)
  \/ TxNext

InitInterceptor == BookingIdle /\ RetryIdle /\ InterceptInit /\ StrategiesRegistered

SpecInterceptor == InitInterceptor /\ [][InterceptorNext]_vars

(* the handler is running, directly or as the unit of work *)
HandlerRunning == tpc \in {"handler", "work"}

(* C22: while the handler of a route decorated with Transaction() without  *)
(* options runs, a READ COMMITTED transaction is open for it.              *)
C22_DefaultReadCommitted ==
  (tArgs = Transaction(<< >>) /\ HandlerRunning)
  => /\ tRuns >= 1
     /\ tArgs.isolationLevel = "READ COMMITTED"

(***************************************************************************)
(* The retry loop of TransactionService.execute (SpecTx).                  *)
(***************************************************************************)
(* execute was called without retry options *)
DefaultRetryOptions(args) == args.retryOnDeadlock /\ args.maxRetries = Undefined

(* execute has thrown *)
ExecuteThrew == tpc = "done" /\ tOutcome.status = "thrown"

(* execute gave up on a retryable error under the default options: the     *)
(* unit of work ran DEFAULT_MAX_RETRIES + 1 times, on as many query        *)
(* runners, and the error of the last run is the one thrown                *)
C23_RunsFourTimes ==
  (ExecuteThrew /\ DefaultRetryOptions(tArgs) /\ isRetryable(tOutcome.error))
  => /\ tRuns = DEFAULT_MAX_RETRIES + 1
     /\ tRunners = DEFAULT_MAX_RETRIES + 1
     /\ tRetries = DEFAULT_MAX_RETRIES
     /\ tOutcome.error = tError
     /\ tOutcome.error.obj = tRuns

(* without retryOnDeadlock there is one attempt only *)
C23_NoRetryWhenDisabled == ~tArgs.retryOnDeadlock => tRunners <= 1 /\ tRetries = 0

(* an attempt that fails is followed by another one only for a retryable   *)
(* error, after its query runner was rolled back and released; any other   *)
(* failure ends execute with that error                                    *)
C23_RetryStep ==
  /\ (tpc = "rollback" /\ tpc' = "begin")
     => /\ tArgs.retryOnDeadlock /\ isRetryable(tError)
        /\ tRetries' = tRetries + 1
        /\ tRunner'.isReleased /\ tRunner'.rollbackCalls >= 1
        /\ ~tRunner'.rollbackFailed => ~tRunner'.active
        /\ tRunner'.effects # "committed"
  /\ (tpc = "rollback" /\ tpc' # "rollback" /\ ~(tArgs.retryOnDeadlock /\ isRetryable(tError)))
     => /\ tpc' = "done"
        /\ tOutcome' = [status |-> "thrown", error |-> tError]
        /\ tRuns' = tRuns

(* every attempt runs on a query runner of its own *)
C23_FreshRunner ==
  (tpc = "begin" /\ tpc' = "work")
  => /\ tRunners' = tRunners + 1
     /\ tRuns' = tRuns + 1
     /\ ~tRunner'.isReleased /\ tRunner'.releaseCalls = 0 /\ tRunner'.effects = "none"
     /\ tRunners > 0 => tRunner.isReleased /\ tRunner.rollbackCalls >= 1

(* C23: with the default options a unit of work that keeps failing with a  *)
(* retryable error is run DEFAULT_MAX_RETRIES + 1 = 4 times, every time on *)
(* a fresh query runner after the previous one was rolled back and         *)
(* released, and the last error is thrown; with retryOnDeadlock = false or *)
(* a non-retryable error it is run once.                                   *)
C23_DefaultRetries ==
  /\ [](C23_RunsFourTimes /\ C23_NoRetryWhenDisabled)
  /\ [][C23_RetryStep /\ C23_FreshRunner]_vars

(* four runs under the default options, the last deadlock is thrown *)
C23_Witness ==
  /\ ExecuteThrew
  /\ DefaultRetryOptions(tArgs)
  /\ isDeadlockError(tOutcome.error)
  /\ tRuns = DEFAULT_MAX_RETRIES + 1

(***************************************************************************)
(* The race of the transaction timer with the completion of an attempt     *)
(* (SpecTx).                                                               *)
(***************************************************************************)
(* the timeout callback has rolled the running transaction back *)
TimerRolledBack == tRunner.timedOut

(* the attempt has committed and execute has returned its result *)
CommittedResult == tpc = "done" /\ tOutcome.status = "returned"

(* a transaction the timer rolled back never yields a result and none of   *)
(* its writes is committed; an attempt that returned has committed what it *)
(* wrote, and its timer can no longer fire                                 *)
C24_OneOutcome ==
  /\ TimerRolledBack => tOutcome.status # "returned" /\ tRunner.effects # "committed"
  /\ CommittedResult => /\ ~TimerRolledBack
                        /\ tRunner.effects \in {"none", "committed"}
                        /\ tRunner.timer # "armed"
  /\ (tpc = "done" /\ TimerRolledBack) => tOutcome.status = "thrown"

(* what was committed stays committed and what the timer rolled back stays *)
(* rolled back as long as the attempt lasts                                *)
C24_Stable ==
  /\ (tRunner.effects = "committed" /\ tRunners' = tRunners)
     => tRunner'.effects = "committed"
  /\ (TimerRolledBack /\ tRunners' = tRunners)
     => tRunner'.timedOut /\ tRunner'.effects # "committed"

(* C24: of one attempt either the committed result or the failure after    *)
(* the timeout is observed, never both: once the timeout callback has      *)
(* rolled the transaction back the attempt never returns a result and      *)
(* commits nothing, and once the commit has succeeded the callback rolls   *)
(* nothing back.                                                           *)
C24_TimeoutRace == []C24_OneOutcome /\ [][C24_Stable]_vars

(* the timer fired while commitTransaction was in flight and the commit    *)
(* went through: the result is returned and the writes are committed       *)
C24_Witness ==
  /\ CommittedResult
  /\ tRunner.timer = "fired"
  /\ tRunner.effects = "committed"

(***************************************************************************)
(* The catch block of executeTransaction and handleRollback (SpecTx).      *)
(***************************************************************************)
(* the errors a failed attempt starts from *)
AttemptErrors ==
  UNION {UowErrors(n) \cup CommitErrors(n) \cup {AlreadyReleasedError(n)} : n \in 1..tRuns}

(* the step that ends handleRollback: the rollback was attempted once, and *)
(* the catch block of execute receives the error the attempt failed with,  *)
(* which is thrown to the caller unless the attempt is retried             *)
C25_RollbackStep ==
  (tpc = "rollback" /\ tpc' # "rollback")
  => /\ tRunner'.rollbackCalls = tRunner.rollbackCalls + 1
     /\ tError' = tError
     /\ \/ tpc' = "done" /\ tOutcome' = [status |-> "thrown", error |-> tError]
        \/ /\ tpc' = "begin" /\ tOutcome' = tOutcome
           /\ tArgs.retryOnDeadlock /\ isRetryable(tError)

(* an attempt that failed in the try block ends execute with the error it  *)
(* failed with, after a rollback attempt                                   *)
C25_OriginalError ==
  (ExecuteThrew /\ tRunner.inTry)
  => /\ tOutcome.error = tError
     /\ tOutcome.error \in AttemptErrors
     /\ tRunner.rollbackCalls >= 1

(* C25: when the unit of work or the commit fails, the rollback is         *)
(* attempted and the original error is propagated; a failure of the        *)
(* rollback itself or an error thrown by a strategy does not replace it.   *)
C25_RollbackThenRethrow == []C25_OriginalError /\ [][C25_RollbackStep]_vars

(* the rollback failed on a query runner that was not released, a strategy *)
(* threw as well, and the caller received the error of the unit of work    *)
C25_Witness ==
  /\ ExecuteThrew
  /\ tRunner.rollbackFailed /\ tRunner.strategyFailed
  /\ tRunner.timer # "fired"
  /\ tOutcome.error = NotFoundException(1)

(***************************************************************************)
(* Timeouts and the retry loop of execute (SpecTx).                        *)
(***************************************************************************)
(* execute is about to start another attempt after a failed one *)
RetryPending == tpc = "begin" /\ tRetries > 0

(* C26: an attempt that failed with a statement timeout, or whose          *)
(* transaction timer fired while the unit of work was running, is never    *)
(* followed by another attempt, and execute ends with the timeout failure. *)
C26_TimeoutsNotRetried ==
  /\ RetryPending => ~isStatementTimeoutError(tError) /\ ~tRunner.timedOut
  /\ (tpc = "done" /\ tRunner.inTry /\ (tRunner.timedOut \/ isStatementTimeoutError(tError)))
     => /\ tOutcome.status = "thrown"
        /\ isTimeoutClass(tOutcome.error)

(* C27: one call of execute runs its unit of work at most once: a failure  *)
(* inside the transaction is thrown to the caller and never retried by     *)
(* execute itself.                                                         *)
C27_ExecuteRunsOnce == tRuns <= 1 /\ tRetries = 0 /\ tRunners <= 1

(***************************************************************************)
(* The timeouts of an attempt (SpecTx).                                    *)
(***************************************************************************)
(* execute was called without a timeout and without a statement timeout *)
NoTimeoutsSupplied(args) == args.timeout = Undefined /\ args.statementTimeout = Undefined

(* the unit of work of the current attempt has been started *)
UowStarted == tRunner.inTry /\ tpc \in {"work", "commit", "rollback"}

(* C28: when no timeouts are supplied the attempt runs with a transaction  *)
(* timeout of 5000 / 10000 / 15000 / 20000 ms for READ UNCOMMITTED / READ  *)
(* COMMITTED / REPEATABLE READ / SERIALIZABLE and a statement timeout of   *)
(* min(transaction timeout / 2, 5000) = 2500 / 5000 / 5000 / 5000 ms, set  *)
(* on the connection before the unit of work runs.                         *)
C28_IsolationLevelPolicy ==
  (UowStarted /\ NoTimeoutsSupplied(tArgs) /\ tArgs.isolationLevel \in IsolationLevels)
  => /\ tArgs.isolationLevel = "READ UNCOMMITTED"
          => tRunner.txTimeout = 5000 /\ tRunner.stmtTimeout = 2500
     /\ tArgs.isolationLevel = "READ COMMITTED"
          => tRunner.txTimeout = 10000 /\ tRunner.stmtTimeout = 5000
     /\ tArgs.isolationLevel = "REPEATABLE READ"
          => tRunner.txTimeout = 15000 /\ tRunner.stmtTimeout = 5000
     /\ tArgs.isolationLevel = "SERIALIZABLE"
          => tRunner.txTimeout = 20000 /\ tRunner.stmtTimeout = 5000
     /\ tRunner.stmtTimeout = Min(tRunner.txTimeout \div 2, 5000)
     /\ tRunner.connected /\ tRunner.timer # "none"

(* a REPEATABLE READ attempt without supplied timeouts runs its unit of    *)
(* work under 15000 ms / 5000 ms                                           *)
C28_Witness ==
  /\ tpc = "work"
  /\ NoTimeoutsSupplied(tArgs)
  /\ tArgs.isolationLevel = "REPEATABLE READ"
  /\ tRunner.txTimeout = 15000 /\ tRunner.stmtTimeout = 5000

(* C29: for an isolation level that is none of the four, execute fails     *)
(* with a configuration error before any unit of work runs, is not         *)
(* retried, and no default timeout is used instead.                        *)
C29_UnknownLevelRejected ==
  (tArgs.isolationLevel \notin IsolationLevels /\ tpc # "begin" /\ tpc # "idle")
  => /\ tRuns = 0
     /\ tRetries = 0
     /\ tpc = "done" /\ tOutcome.status = "thrown"
     /\ tOutcome.error.class = "ConfigurationError"

(***************************************************************************)
(* The backoff schedule of executeWithRetry (SpecRetry); delays are in     *)
(* hundredths of a millisecond.                                            *)
(***************************************************************************)
(* the delays min(delay * backoffFactor * (1 + j), maxDelay), 0 <= j < 0.2 *)
BackoffSuccessors(delay) ==
  {Min((delay * rOptions["backoffFactor"] * (100 + j)) \div 100, rOptions["maxDelay"] * 100) :
     j \in 0..19}

(* the sleeps of the retries made so far follow the schedule, and there is *)
(* one sleep per retry                                                     *)
C30_Schedule ==
  /\ Len(rSlept) >= 1 => rSlept[1] = rOptions["initialDelay"] * 100
  /\ \A i \in 1..(Len(rSlept) - 1) :
        /\ rSlept[i + 1] \in BackoffSuccessors(rSlept[i])
        /\ (rOptions["backoffFactor"] >= 1 /\ rSlept[i] <= rOptions["maxDelay"] * 100)
           => /\ rSlept[i + 1] >= rSlept[i]
              /\ rSlept[i + 1] <= rOptions["maxDelay"] * 100
  /\ rCurrentRetry = Len(rSlept)
  /\ rpc = "delay" => rDelay = rSlept[Len(rSlept)]

(* a retry adds one to the attempt counter and sleeps the current delay;   *)
(* no other step changes the counter                                       *)
C30_CounterStep ==
  /\ rCurrentRetry' \in {rCurrentRetry, rCurrentRetry + 1}
  /\ (rCurrentRetry' = rCurrentRetry + 1)
     <=> (rpc = "operation" /\ rpc' = "delay")
  /\ (rpc = "operation" /\ rpc' = "delay") => rSlept' = Append(rSlept, rDelay)

CurrentRun(p) == trace[p][Len(trace[p])]

(* an optimistic call that holds a ticket read in its current attempt:     *)
(* the version it will put in the WHERE clause is the version the findOne  *)
(* of this attempt found                                                   *)
C31_UsesOwnRead ==
  \A p \in Procs :
     (isOptimisticKind(call[p].kind) /\ pc[p] \in {"update", "commit"})
     => /\ Len(trace[p]) >= 1
        /\ ticket[p].version = CurrentRun(p).read
        /\ tx[p].wrote => /\ tx[p].pending.quantity = ticket[p].quantity
                          /\ tx[p].pending.version = ticket[p].version + 1

(* every committed write of an optimistic call was computed from the row   *)
(* as it was committed when the attempt read it                            *)
C31_WritesFromOwnRead ==
  \A i \in 1..Len(log) :
     isOptimisticKind(call[log[i].proc].kind)
     => /\ log[i].dbBefore.version = log[i].before
        /\ log[i].after.quantity =
             NewQuantity(call[log[i].proc].kind, log[i].dbBefore.quantity, call[log[i].proc].qty)

(* every attempt starts a transaction of its own and reads the committed   *)
(* row in it: the step from findOne to the update takes the version and    *)
(* the quantity of the row as it is committed at that moment               *)
C31_ReadStep ==
  \A p \in Procs :
     /\ (pc[p] = "execute" /\ pc'[p] = "findOne")
        => /\ tx'[p].active /\ ~tx'[p].wrote /\ ~tx'[p].isReleased
           /\ Len(trace'[p]) = Len(trace[p]) + 1
     /\ (isOptimisticKind(call[p].kind) /\ pc[p] = "findOne" /\ pc'[p] = "update")
        => /\ ticket'[p].version = db.version
           /\ ticket'[p].quantity = NewQuantity(call[p].kind, db.quantity, call[p].qty)
           /\ tx[p].active

(* C31: every attempt of bookTicketOptimistic / releaseTicketOptimistic,   *)
(* retries included, reads the ticket in a transaction of its own and uses *)
(* the version and the quantity of that read for its conditional update;   *)
(* what an earlier attempt read is never used by a later one.              *)
C31_NoStaleState ==
  [](C31_UsesOwnRead /\ C31_WritesFromOwnRead) /\ [][C31_ReadStep]_vars

(* a call lost the version check, read the later version in its next       *)
(* attempt and committed on it                                             *)
C31_Witness ==
  \E p \in Procs :
     /\ isOptimisticKind(call[p].kind) /\ Succeeded(p)
     /\ Len(trace[p]) >= 2
     /\ isVersionConflict(trace[p][1].err)
     /\ CurrentRun(p).read > trace[p][1].read
     /\ result[p].value.version = CurrentRun(p).read + 1

(***************************************************************************)
(* Contention among the optimistic operations: the calls started together  *)
(* by testOptimisticConcurrency, every call making progress and no timeout *)
(* firing, so that version conflicts are the only failures                 *)
(* (SpecContention).                                                       *)
(***************************************************************************)
ContentionNext == \E p \in TestProcs : Progress(p)

SpecContention ==
  InitConcurrentTest /\ [][ContentionNext]_vars /\ \A p \in TestProcs : WF_vars(Progress(p))

(* the runs of p's call that ended in a version conflict *)
VersionConflicts(p) == {i \in 1..Len(trace[p]) : isVersionConflict(trace[p][i].err)}

(* the committed writes of the other calls *)
CommitsOfOthers(p) == {i \in 1..Len(log) : log[i].proc # p}

(* the quantity asked for by all the bookings together (each books one) is *)
(* in stock                                                                *)
SufficientForAll ==
  q0 >= Cardinality({p \in TestProcs : isBookingKind(call[p].kind)})

(* nothing but version conflicts failed a run of p's call *)
OnlyVersionConflicts(p) ==
  \A i \in 1..Len(trace[p]) :
     trace[p][i].err = NoError \/ isVersionConflict(trace[p][i].err)

(* a call loses the version check at most once per commit of another call, *)
(* which leaves it within its BOOKING_MAX_RETRIES retries; a call that has *)
(* returned after version conflicts only has returned success              *)
C32_Outcome ==
  \A p \in TestProcs :
     /\ Cardinality(VersionConflicts(p)) <= Cardinality(CommitsOfOthers(p))
     /\ Cardinality(VersionConflicts(p)) <= Cardinality(TestProcs) - 1
     /\ (SufficientForAll /\ OnlyVersionConflicts(p))
        => /\ currentRetry[p] <= BOOKING_MAX_RETRIES
           /\ currentRetry[p] = Cardinality(VersionConflicts(p))
           /\ pc[p] = "done" => /\ Succeeded(p)
                                /\ result[p].error = NoError

NestedProcs == {1}

(* the error of the database that both retry loops take as retryable:     *)
(* "could not serialize access due to concurrent update"                   *)
DatabaseErrors(obj) == {SerializationFailure(obj)}

NestedInit ==
  /\ q0 \in 0..MaxInitQty
  /\ db = [quantity |-> q0, version |-> INITIAL_VERSION]
  /\ rowLock = {}
  /\ call \in [NestedProcs -> {c \in Calls : isOptimisticKind(c.kind) /\ c.id \in Existing}]
  /\ pc = [p \in NestedProcs |-> "execute"]
  /\ tx = [p \in NestedProcs |-> NoTx]
  /\ ticket = [p \in NestedProcs |-> NoTicket]
  /\ retries = [p \in NestedProcs |-> 0]
  /\ currentRetry = [p \in NestedProcs |-> 0]
  /\ sleeps = [p \in NestedProcs |-> 0]
  /\ result = [p \in NestedProcs |-> Pending]
  /\ log = << >>
  /\ trace = [p \in NestedProcs |-> << >>]

(* the conditional update is rejected by the database with e *)
UpdateFails(p, e) ==
  /\ pc[p] = "update"
  /\ UNCHANGED << rvars, tvars, svars >>
  /\ ~tx[p].isReleased
  /\ Fail(p, e)
  /\ UNCHANGED << db, call, ticket, log, q0 >>

NestedNext ==
  \E p \in NestedProcs :
     \/ BeginTransaction(p)
     \/ FindOne(p)
     \/ ConditionalUpdate(p)
     \/ \E e \in DatabaseErrors(uowRuns(p)) : UpdateFails(p, e)
     \/ CommitTransaction(p)
     \/ TransactionTimeout(p)

InitNested == NestedInit /\ RetryIdle /\ TxIdle /\ StrategiesRegistered

SpecNested ==
  InitNested /\ [][NestedNext]_vars /\ \A p \in NestedProcs : WF_vars(Progress(p))

(* the call of the nested loops has returned *)
NestedDone == \A p \in NestedProcs : pc[p] = "done"

(* the runs of the unit of work are bounded by the two retry counters *)
C33_Bound ==
  \A p \in NestedProcs :
     /\ retries[p] <= DEFAULT_MAX_RETRIES
     /\ currentRetry[p] <= BOOKING_MAX_RETRIES
     /\ uowRuns(p) <= currentRetry[p] * (DEFAULT_MAX_RETRIES + 1) + retries[p] + 1
     /\ uowRuns(p) <= (BOOKING_MAX_RETRIES + 1) * (DEFAULT_MAX_RETRIES + 1)
     /\ uowRuns(p) <= 24

(* C33: one call of bookTicketOptimistic or releaseTicketOptimistic always *)
(* terminates, after at most (5 + 1) * (3 + 1) = 24 runs of its unit of    *)
(* work: executeWithRetry makes at most 6 calls of execute and execute     *)
(* runs the unit of work at most 4 times.                                  *)
C33_NestedTermination == []C33_Bound /\ <>NestedDone

(* the database failed every conditional update: 24 runs, then the         *)
(* terminal conflict error                                                 *)
C33_Witness ==
  \E p \in NestedProcs :
     /\ pc[p] = "done"
     /\ uowRuns(p) = 24
     /\ currentRetry[p] = BOOKING_MAX_RETRIES
     /\ result[p].error = ConflictAfterRetries(ContextOf(call[p]), BOOKING_MAX_RETRIES)

(***************************************************************************)
(* bookTicketWithIsolation at READ COMMITTED and READ UNCOMMITTED (the     *)
(* endpoints book-read-committed and book-read-uncommitted): findOne       *)
(* without a lock option, the quantity check, the in-memory decrement and  *)
(* ticketRepository.save, inside TransactionService.execute.  PostgreSQL   *)
(* runs READ UNCOMMITTED as READ COMMITTED: both read the committed row.   *)
(***************************************************************************)
IsolationKinds == {"bookTicketReadCommitted", "bookTicketReadUncommitted"}

IsolationCalls == {c \in [kind : IsolationKinds, id : Ids, qty : 1..MaxQty] :
                     c.id \in Existing \/ c.qty = 1}

IsolationRank(c) ==
  (IF c.kind = "bookTicketReadCommitted" THEN 0 ELSE 2 * (MaxQty + 1))
  + (IF c.id \in Existing THEN MaxQty + 1 ELSE 0) + c.qty

IsolationInit ==
  /\ q0 \in 0..MaxInitQty
  /\ db = [quantity |-> q0, version |-> INITIAL_VERSION]
  /\ rowLock = {}
  /\ call \in [Procs -> IsolationCalls]
  /\ \A p \in Procs : \A r \in Procs : p < r => IsolationRank(call[p]) <= IsolationRank(call[r])
  /\ pc = [p \in Procs |-> "execute"]
  /\ tx = [p \in Procs |-> NoTx]
  /\ ticket = [p \in Procs |-> NoTicket]
  /\ retries = [p \in Procs |-> 0]
  /\ currentRetry = [p \in Procs |-> 0]
  /\ sleeps = [p \in Procs |-> 0]
  /\ result = [p \in Procs |-> Pending]
  /\ log = << >>
  /\ trace = [p \in Procs |-> << >>]

(* findOne({ where: { id } }) of bookTicketWithIsolation, no lock option:  *)
(* a plain read of the committed row, then the checks and the decrement.   *)
FindOneWithIsolation(p) ==
  /\ pc[p] = "findOne"
  /\ UNCHANGED << rvars, tvars, svars >>
  /\ isIsolationKind(call[p].kind)
  /\ UNCHANGED << db, call, log, q0 >>
  /\ LET run == uowRuns(p) IN
     IF tx[p].isReleased
     THEN Fail(p, AlreadyReleasedError(run)) /\ UNCHANGED ticket
     ELSE IF call[p].id \notin Existing
     THEN Fail(p, NotFoundException(run)) /\ UNCHANGED ticket
     ELSE IF Insufficient(call[p].kind, db.quantity, call[p].qty)
     THEN Fail(p, InsufficientQuantity(run))
          /\ ticket' = [ticket EXCEPT ![p] = db]
     ELSE /\ ticket' = [ticket EXCEPT ![p] =
                [quantity |-> NewQuantity(call[p].kind, db.quantity, call[p].qty),
                 version |-> db.version]]
          /\ trace' = [trace EXCEPT ![p][Len(trace[p])].read = db.version]
          /\ pc' = [pc EXCEPT ![p] = "save"]
          /\ UNCHANGED << rowLock, tx, retries, currentRetry, sleeps, result >>

IsolationNext ==
  \E p \in Procs :
     \/ BeginTransaction(p)
     \/ FindOneWithIsolation(p)
     \/ Save(p)
     \/ CommitTransaction(p)
     \/ TransactionTimeout(p)

InitIsolation == IsolationInit /\ RetryIdle /\ TxIdle /\ StrategiesRegistered

SpecIsolation == InitIsolation /\ [][IsolationNext]_vars

(* the quantity the successful calls booked *)
RECURSIVE Booked(_)
Booked(S) ==
  IF S = {} THEN 0
  ELSE LET p == CHOOSE x \in S : TRUE
       IN (IF Succeeded(p) THEN call[p].qty ELSE 0) + Booked(S \ {p})

(* C34: concurrent calls of bookTicketWithIsolation at READ COMMITTED or   *)
(* READ UNCOMMITTED lose no update: once all have returned the committed   *)
(* quantity is the initial quantity minus the quantities of the successful *)
(* calls, and no more than the initial quantity has been booked.           *)
C34_IsolationNoLostUpdate ==
  AllDone => /\ db.quantity = q0 - Booked(Procs)
             /\ Booked(Procs) <= q0

(***************************************************************************)
(* Pessimistic and optimistic operations on the same ticket.               *)
(***************************************************************************)
(* the calls in progress use both strategies *)
MixedStrategies ==
  /\ \E p \in Procs : isPessimisticKind(call[p].kind)
  /\ \E p \in Procs : isOptimisticKind(call[p].kind)

Successful == {p \in Procs : Succeeded(p)}

(* C35: when pessimistic and optimistic calls run concurrently on the same *)
(* ticket, once all have returned the quantity is the initial quantity     *)
(* minus the booked plus the released quantities of the successful calls,  *)
(* and the version has grown by exactly the number of successful calls.    *)
C35_MixedStrategiesSafe ==
  (MixedStrategies /\ AllDone) =>
     /\ db.quantity = q0 + SumDeltas(Successful)
     /\ db.version = INITIAL_VERSION + Cardinality(Successful)

(* a pessimistic and an optimistic call both succeeded on the ticket, the  *)
(* pessimistic one committing while the optimistic one was between its     *)
(* read and its update                                                     *)
C35_Witness ==
  /\ AllDone
  /\ \E p \in Successful : \E r \in Successful :
        /\ isPessimisticKind(call[p].kind)
        /\ isOptimisticKind(call[r].kind)
        /\ currentRetry[r] > 0

(***************************************************************************)
(* Failures of the setup of executeTransaction.                            *)
(***************************************************************************)
(* execute has thrown the error of a setup statement that failed after the *)
(* query runner had connected                                              *)
SetupFailedAfterConnect ==
  /\ tpc = "done"
  /\ tOutcome.status = "thrown"
  /\ tRunner.connected
  /\ ~tRunner.inTry

(* C36: when startTransaction or SET statement_timeout fails after the     *)
(* query runner connected, the query runner has been released and the      *)
(* transaction it started rolled back by the time execute throws.          *)
C36_SetupFailureReleases ==
  SetupFailedAfterConnect =>
     /\ tRunner.isReleased
     /\ tRunner.releaseCalls = 1
     /\ ~tRunner.active

(***************************************************************************)
(* The timeout callback and the life of an attempt.                        *)
(***************************************************************************)
(* executeTransaction is between the arming of the timer and the end of    *)
(* its finally block                                                       *)
AttemptLive == tpc \in {"work", "commit", "rollback"}

(* the step is a run of the timeout callback *)
TimerFired == tRunner.timer = "armed" /\ tRunner'.timer = "fired"

(* once executeTransaction has finished, its timer is no longer armed *)
C37_TimerCleared == ~AttemptLive => tRunner.timer # "armed"

(* a run of the callback happens during the attempt, and issues its        *)
(* rollback and release only on a query runner that is not released        *)
C37_HandlerStep ==
  TimerFired =>
     /\ AttemptLive
     /\ IF tRunner.isReleased
        THEN /\ tRunner'.rollbackCalls = tRunner.rollbackCalls
             /\ tRunner'.releaseCalls = tRunner.releaseCalls
        ELSE /\ tRunner'.rollbackCalls = tRunner.rollbackCalls + 1
             /\ tRunner'.releaseCalls = tRunner.releaseCalls + 1
             /\ tRunner.releaseCalls = 0

(* C37: the timeout callback acts only on a live attempt: every exit path  *)
(* of executeTransaction clears the timer, so the callback never runs      *)
(* after the attempt has finished, and it issues rollback and release only *)
(* for a query runner that has not been released.                          *)
C37_TimerOnLiveAttempt == []C37_TimerCleared /\ [][C37_HandlerStep]_vars

(* the callback rolled back and released a running attempt; the attempt    *)
(* has finished since and its finally block released nothing more          *)
C37_Witness ==
  /\ tpc = "done"
  /\ tRunner.timer = "fired"
  /\ tRunner.timedOut
  /\ tRunner.releaseCalls = 1
  /\ tRunner.rollbackCalls >= 1

(***************************************************************************)
(* The length of the backoff sleeps of executeWithRetry (SpecRetry).       *)
(***************************************************************************)
(* C38: every backoff sleep of executeWithRetry lasts at most maxDelay,    *)
(* whatever initialDelay, maxDelay, backoffFactor and the jitter are,      *)
(* initialDelay > maxDelay included.                                       *)
C38_SleepsCapped ==
  \A i \in 1..Len(rSlept) : rSlept[i] <= rOptions["maxDelay"] * 100

(***************************************************************************)
(* RollbackStrategyService with arbitrary registered strategies: a fresh   *)
(* service, calls of registerStrategy and registerDefaultStrategies, then  *)
(* one call of isRetryable, one iteration of its loop per step.            *)
(***************************************************************************)
MaxStrategies == 3

(* shouldRollback of a registered strategy: one of the four classifiers,   *)
(* or a function that throws                                               *)
StrategyNames == {"deadlock", "serialization", "lockTimeout", "statementTimeout", "throwing"}

(* RollbackStrategy: retryable is optional *)
Strategies == [name : StrategyNames, retryable : BOOLEAN] \cup [name : StrategyNames]

(* await strategy.shouldRollback(error) throws *)
shouldRollbackThrows(strategy, error) == strategy.name = "throwing"

(* a test that takes every strategy as retryable *)
retryableFlagIgnored(strategy) == TRUE

(* strategy.retryable as a condition: undefined is falsy *)
retryableFlag(strategy) == "retryable" \in DOMAIN strategy /\ strategy.retryable

StrategyErrors ==
  {DeadlockError(1), SerializationFailure(1), LockNotAvailable(1), StatementTimeoutError(1),
   VersionConflict(1)}

StrategiesInit ==
  /\ strategies = << >>
  /\ spc = "idle"
  /\ sError = NoError
  /\ sIndex = 0
  /\ sResult = "none"
  /\ sLogged = 0

(* registerStrategy(strategy): this.strategies.push(strategy) *)
registerStrategy(strategy) ==
  /\ spc = "idle"
  /\ Len(strategies) < MaxStrategies
  /\ strategies' = Append(strategies, strategy)
  /\ UNCHANGED << spc, sError, sIndex, sResult, sLogged, bvars, rvars, tvars >>

(* registerDefaultStrategies: the four default strategies are pushed *)
registerDefaultStrategies ==
  /\ spc = "idle"
  /\ Len(strategies) < MaxStrategies
  /\ strategies' = strategies \o DefaultStrategies
  /\ UNCHANGED << spc, sError, sIndex, sResult, sLogged, bvars, rvars, tvars >>

(* isRetryable(error) is called: the loop starts at the first strategy *)
IsRetryableCalled(error) ==
  /\ spc = "idle"
  /\ spc' = "loop"
  /\ sError' = error
  /\ sIndex' = 1
  /\ UNCHANGED << strategies, sResult, sLogged, bvars, rvars, tvars >>

(* one iteration of for (const strategy of this.strategies): try           *)
(* shouldRollback, return true on a match that is retryable, log what the  *)
(* strategy throws; return false after the last strategy.                  *)
IsRetryableStep ==
  /\ spc = "loop"
  /\ UNCHANGED << strategies, sError, bvars, rvars, tvars >>
  /\ IF sIndex > Len(strategies)
     THEN /\ sResult' = "false"
          /\ spc' = "done"
          /\ UNCHANGED << sIndex, sLogged >>
     ELSE IF shouldRollbackThrows(strategies[sIndex], sError)
     THEN /\ sLogged' = sLogged + 1
          /\ sIndex' = sIndex + 1
          /\ UNCHANGED << spc, sResult >>
     ELSE IF shouldRollback(strategies[sIndex], sError) /\ retryableFlag(strategies[sIndex])
     THEN /\ sResult' = "true"
          /\ spc' = "done"
          /\ UNCHANGED << sIndex, sLogged >>
     ELSE /\ sIndex' = sIndex + 1
          /\ UNCHANGED << spc, sResult, sLogged >>

StrategiesNext ==
  \/ \E strategy \in Strategies : registerStrategy(strategy)
  \/ registerDefaultStrategies
  \/ \E error \in StrategyErrors : IsRetryableCalled(error)
  \/ IsRetryableStep

InitStrategies == BookingIdle /\ RetryIdle /\ TxIdle /\ StrategiesInit

SpecStrategies == InitStrategies /\ [][StrategiesNext]_vars

(* the strategy at position i matches the error without throwing *)
Matches(i) ==
  /\ ~shouldRollbackThrows(strategies[i], sError)
  /\ shouldRollback(strategies[i], sError)

(* a registered strategy with retryable = true matches the error *)
RetryableMatch ==
  \E i \in 1..Len(strategies) :
     /\ Matches(i)
     /\ "retryable" \in DOMAIN strategies[i]
     /\ strategies[i].retryable = TRUE

(* C39: isRetryable(error) returns true exactly when a registered strategy *)
(* with retryable = true matches the error, whatever the order of          *)
(* registration and whatever non-retryable strategies match as well; a     *)
(* strategy whose shouldRollback throws counts as not matching and         *)
(* isRetryable never throws: it returns true or false, and has logged one  *)
(* error per throwing strategy it passed.                                  *)
C39_IsRetryableExact ==
  spc = "done" =>
     /\ sResult \in {"true", "false"}
     /\ sResult = "true" <=> RetryableMatch
     /\ sLogged =
          Cardinality({i \in 1..Len(strategies) :
                         /\ shouldRollbackThrows(strategies[i], sError)
                         /\ (sResult = "true" => i < sIndex)})

(* isRetryable returned true after passing a strategy that threw and a     *)
(* non-retryable strategy that matched                                     *)
C39_Witness ==
  /\ spc = "done"
  /\ sResult = "true"
  /\ sLogged >= 1
  /\ \E i \in 1..(sIndex - 1) : Matches(i) /\ ~retryableFlag(strategies[i])

====
